---- MODULE Spec2Model ----
(***************************************************************************)
(* Model of the AquaSafe AI backend (shaya101101-byte/EMS): the detect ->  *)
(* classify -> aggregate -> annotate -> record handlers of                 *)
(* backend/services and backend/routes.                                    *)
(*                                                                         *)
(* Units.  Confidences are integers in units of 1e-5 (0.9 is 90000).       *)
(* A percentage is an integer number of tenths of a percent (33.3 is 333), *)
(* an avg_confidence an integer number of thousandths, a confidence        *)
(* returned by YoloPipeline.run an integer number of 1e-4.  Raw detector   *)
(* coordinates are floats in the source; here they are integers in half    *)
(* pixels (3 is 1.5 px), so that int() has something to truncate.          *)
(***************************************************************************)
EXTENDS Integers, Sequences, FiniteSets, TLC

VARIABLES
    MODEL,       \* services/yolo_analyzer.py  MODEL: [kind |-> "None"], or
                 \* [kind |-> "YOLO", names] with the names the weights carry
    wrapper,     \* services/model_loader.py   MODEL: [type, model, class_names]
    yolo,        \* main.py app.state.yolo: [kind] with kind "unset" or "None", or
                 \* [kind |-> "YoloPipeline", det_names, cls_names]
    ai_model,    \* ai_analyzer.py _ai_analyzer.model: "unset" while _ai_analyzer
                 \* is None, then "None" or "YOLO"
    detection_model,       \* routes/live_detect.py global: [kind] with kind
                           \* "unset" until the module is imported, then
                           \* "None", or [kind |-> "YOLO", names]
    classification_model,  \* routes/live_detect.py global, likewise
    snapshots_store,       \* routes/live_detect.py global dict, id -> record
    uploading,   \* routes/live_detect.py: the handlers of upload_snapshot that
                 \* wait at `await image.read()` (line 123), each with the
                 \* snap_id it took at line 120 and the filename of its upload
    saving,      \* routes/history_route.py: the handlers of POST /history/save
                 \* that wait at `await image.read()` (line 29), each with
                 \* the document json.loads gave it at line 26
    clock,       \* milliseconds of datetime.utcnow()
    db,          \* database/db.py detections table, in insertion order
    op,          \* the operation that ran last
    req,         \* its input
    effects,     \* the steps it performed, in order, as pairs <<step, box number>>
    resp,        \* what it returned or raised
    history_json \* ai_analyzer.py  backend/history.json: [exists, text]

vars == <<MODEL, wrapper, yolo, ai_model, detection_model, classification_model,
          snapshots_store, uploading, saving, clock, db, op, req, effects, resp,
          history_json>>

models == <<MODEL, wrapper, yolo, ai_model, detection_model, classification_model>>

(***************************************************************************)
(* Bounds of the model                                                     *)
(***************************************************************************)
MaxDet == 4      \* detections of one detector output, in any order
MaxBatch == 6    \* detections of one detector output that lists class after class
MaxBoxes == 3    \* boxes of one detector output handed to YoloPipeline.run
MaxRareBoxes == 1  \* boxes of one such output whose crops meet the rarer outcomes
MaxRawBoxes == 2   \* boxes of one such output whose arrays cannot be read
ImgW == 4        \* width of the analysed image in pixels
ImgH == 3        \* height of the analysed image in pixels
MaxSnapBoxes == 1  \* boxes of one detector output on the live-detection page
MaxUploading == 2  \* handlers of upload_snapshot that wait for their body at once
MaxSaving == 2     \* handlers of POST /history/save that wait for their body at once
MaxMockBoxes == 1  \* boxes _mock_boxes draws (the source draws 1 to 6)
MaxPredictBoxes == 1  \* boxes of one detector output behind POST /predict
MaxRows == 1     \* rows of the detections table
MaxHistory == 3  \* rows of the detections table when the history is read
MaxTieBoxes == 2 \* detections of an image whose classes may tie
MaxAggBoxes == 3 \* detections of a list that is aggregated twice
MaxDrawBoxes == 2 \* boxes drawn on one image

(***************************************************************************)
(* Generic helpers                                                         *)
(***************************************************************************)
Range(s) == {s[i] : i \in 1..Len(s)}

SeqsUpTo(S, n) == UNION {[1..k -> S] : k \in 0..n}

RECURSIVE SumSeq(_)
SumSeq(s) == IF s = <<>> THEN 0 ELSE s[1] + SumSeq(Tail(s))

\* dict.get(key, default)
DictGet(d, k, default) == IF k \in DOMAIN d THEN d[k] ELSE default

\* Python 3 round(): the integer nearest to n/d, a tie going to the even one.
\* (n >= 0, d > 0)
RoundHalfEven(n, d) ==
    LET q == n \div d
        r == n % d
    IN  IF 2 * r > d THEN q + 1
        ELSE IF 2 * r < d THEN q
        ELSE IF q % 2 = 0 THEN q ELSE q + 1

(***************************************************************************)
(* Python floats.  A float is an IEEE-754 double; here a finite double     *)
(* that is not negative is a record [m, e] standing for m * 2^e, where m   *)
(* is a natural number of 53 binary digits (or 0) written in base 1024,    *)
(* most significant digit first.  Every operation gives the exact result   *)
(* rounded to the nearest double, a tie going to the even mantissa.        *)
(***************************************************************************)
BinaryDigits == 50 + 3
LimbBits == 5 + 5
Limb == 2 ^ LimbBits

\* the number of binary digits of a small natural number
RECURSIVE BitLen(_)
BitLen(n) == IF n = 0 THEN 0 ELSE 1 + BitLen(n \div 2)

\* the base-1024 digits of a small natural number
RECURSIVE Limbs(_)
Limbs(n) == IF n = 0 THEN <<>> ELSE Append(Limbs(n \div Limb), n % Limb)

\* the natural number with digits b, when it fits an integer
RECURSIVE LimbsValue(_)
LimbsValue(b) ==
    IF b = <<>> THEN 0 ELSE Limb * LimbsValue(SubSeq(b, 1, Len(b) - 1)) + b[Len(b)]

Zeros(k) == [i \in 1..k |-> 0]

RECURSIVE Strip(_)
Strip(b) == IF b # <<>> /\ b[1] = 0 THEN Strip(Tail(b)) ELSE b

\* the number of binary digits of the number with digits b
BigBitLen(b) ==
    LET n == Strip(b)
    IN  IF n = <<>> THEN 0 ELSE LimbBits * (Len(n) - 1) + BitLen(n[1])

\* b * c + carry, for c < 2^20
RECURSIVE MulSmall(_, _, _)
MulSmall(b, c, carry) ==
    IF b = <<>> THEN Limbs(carry)
    ELSE LET v == b[Len(b)] * c + carry
         IN  Append(MulSmall(SubSeq(b, 1, Len(b) - 1), c, v \div Limb), v % Limb)

\* a + b + carry
RECURSIVE AddBig(_, _, _)
AddBig(a, b, carry) ==
    IF a = <<>> /\ b = <<>> THEN Limbs(carry)
    ELSE LET x == IF a = <<>> THEN 0 ELSE a[Len(a)]
             y == IF b = <<>> THEN 0 ELSE b[Len(b)]
             v == x + y + carry
         IN  Append(AddBig(IF a = <<>> THEN a ELSE SubSeq(a, 1, Len(a) - 1),
                           IF b = <<>> THEN b ELSE SubSeq(b, 1, Len(b) - 1),
                           v \div Limb),
                    v % Limb)

\* long division of b by d, 0 < d < 2^20, from digit i on with remainder r:
\* [q, r] with b = q * d + r
RECURSIVE DivSmall(_, _, _, _)
DivSmall(b, d, i, r) ==
    IF i > Len(b) THEN [q |-> <<>>, r |-> r]
    ELSE LET v == Limb * r + b[i]
             rest == DivSmall(b, d, i + 1, v % d)
         IN  [q |-> <<v \div d>> \o rest.q, r |-> rest.r]

\* b * 2^k
ShiftLeft(b, k) == MulSmall(b, 2 ^ (k % LimbBits), 0) \o Zeros(k \div LimbBits)

\* b cut off k binary digits from the right: [q, sticky] with q the integer
\* part of b / 2^k and sticky telling whether a digit 1 was cut off
ShiftRight(b, k) ==
    LET whole == k \div LimbBits
        kept == IF whole >= Len(b) THEN <<>> ELSE SubSeq(b, 1, Len(b) - whole)
        cut == IF whole >= Len(b) THEN b ELSE SubSeq(b, Len(b) - whole + 1, Len(b))
        qr == DivSmall(kept, 2 ^ (k % LimbBits), 1, 0)
    IN  [q |-> Strip(qr.q), sticky |-> qr.r > 0 \/ \E i \in 1..Len(cut) : cut[i] # 0]

\* the double with mantissa digits m and exponent e, m of 53 binary digits
\* or, after a carry, of 54 with a last digit 0
FlNorm(m, e) ==
    IF BigBitLen(m) > BinaryDigits
    THEN [m |-> Strip(DivSmall(m, 2, 1, 0).q), e |-> e + 1]
    ELSE [m |-> m, e |-> e]

\* rounding to nearest, a tie to even: keep are the 53 digits, guard the
\* digit after them, sticky whether a digit 1 follows the guard digit
FlUp(keep, guard, sticky, e) ==
    FlNorm(IF guard /\ (sticky \/ keep[Len(keep)] % 2 = 1)
           THEN AddBig(keep, <<>>, 1) ELSE keep, e)

FlKeep(half, sticky, e) == FlUp(Strip(half.q), half.r = 1, sticky, e)

FlHalf(sh, inexact, e) == FlKeep(DivSmall(sh.q, 2, 1, 0), sh.sticky \/ inexact, e)

\* q * 2^e cut to 53 binary digits, t the number of digits to drop
FlCut(q, inexact, t, e) == FlHalf(ShiftRight(Strip(q), t - 1), inexact, e + t)

FlQuot(qr, e) == FlCut(qr.q, qr.r > 0, BigBitLen(qr.q) - BinaryDigits, e)

\* the double nearest to (n / d) * 2^e, for digits n and 0 < d < 2^20
Fl(n, d, e) ==
    IF Strip(n) = <<>> THEN [m |-> <<>>, e |-> 0]
    ELSE FlQuot(DivSmall(Strip(n) \o Zeros(8), d, 1, 0), e - 8 * LimbBits)

\* n / d for two ints, n >= 0 and d > 0
FlDiv(n, d) == Fl(Limbs(n), d, 0)

\* x * c and x / c for a float x and an int c > 0
FlMulInt(x, c) == Fl(MulSmall(x.m, c, 0), 1, x.e)
FlDivInt(x, c) == Fl(x.m, c, x.e)

\* x + y
FlAdd(x, y) ==
    IF x.m = <<>> THEN y
    ELSE IF y.m = <<>> THEN x
    ELSE LET e == IF x.e <= y.e THEN x.e ELSE y.e
         IN  Fl(AddBig(ShiftLeft(x.m, x.e - e), ShiftLeft(y.m, y.e - e), 0), 1, e)

\* a - b - borrow, for a >= b + borrow
RECURSIVE SubBig(_, _, _)
SubBig(a, b, borrow) ==
    IF a = <<>> THEN <<>>
    ELSE LET y == IF b = <<>> THEN 0 ELSE b[Len(b)]
             v == a[Len(a)] - y - borrow
         IN  Append(SubBig(SubSeq(a, 1, Len(a) - 1),
                           IF b = <<>> THEN b ELSE SubSeq(b, 1, Len(b) - 1),
                           IF v < 0 THEN 1 ELSE 0),
                    IF v < 0 THEN v + Limb ELSE v)

\* a * b
RECURSIVE MulBig(_, _)
MulBig(a, b) ==
    IF b = <<>> THEN <<>>
    ELSE AddBig(MulBig(a, SubSeq(b, 1, Len(b) - 1)) \o <<0>>,
                MulSmall(a, b[Len(b)], 0), 0)

\* x - y, for x >= y
FlSub(x, y) ==
    IF y.m = <<>> THEN x
    ELSE LET e == IF x.e <= y.e THEN x.e ELSE y.e
         IN  Fl(SubBig(ShiftLeft(x.m, x.e - e), ShiftLeft(y.m, y.e - e), 0), 1, e)

\* x * y
FlMul(x, y) ==
    IF x.m = <<>> \/ y.m = <<>> THEN [m |-> <<>>, e |-> 0]
    ELSE Fl(MulBig(x.m, y.m), 1, x.e + y.e)

\* n * 2^e to one binary digit after the point: [q, sticky], q = 2 * (the
\* integer part) + (the first digit after the point)
ScaledDigits(n, e) ==
    IF e >= 0 THEN [q |-> ShiftLeft(n, e + 1), sticky |-> FALSE]
    ELSE ShiftRight(n, -e - 1)

\* x * pow10 to one binary digit after the point
Scaled(x, pow10) == ScaledDigits(Strip(MulSmall(x.m, pow10, 0)), x.e)

\* int(x * pow10)
FloorScaled(x, pow10) == LimbsValue(Scaled(x, pow10).q) \div 2

\* the integer nearest to v / 2, sticky telling that the exact value is
\* above v / 2; a tie goes to the even one
RoundBit(v, sticky) ==
    IF v % 2 = 0 THEN v \div 2
    ELSE IF sticky THEN v \div 2 + 1
    ELSE IF (v \div 2) % 2 = 0 THEN v \div 2 ELSE v \div 2 + 1

RoundDigits(s) == RoundBit(LimbsValue(s.q), s.sticky)

\* round(x, k) in units of 10^-k, with pow10 = 10^k: the integer nearest to
\* the exact value of x * 10^k, a tie going to the even one
RoundScaled(x, pow10) == RoundDigits(Scaled(x, pow10))

\* int(v) of a float v given in half pixels: truncation toward zero
IntOf(v) == IF v >= 0 THEN v \div 2 ELSE -((-v) \div 2)

\* str.lower() on the strings that occur
Lower(s) ==
    IF s = "IMAGE/PNG" THEN "image/png"
    ELSE IF s = ".PNG" THEN ".png"
    ELSE IF s = ".JPG" THEN ".jpg"
    ELSE IF s \in {"Rotifer", "ROTIFER"} THEN "rotifer"
    ELSE IF s \in {"Algae", "ALGAE"} THEN "algae"
    ELSE IF s \in {"Diatom", "DIATOM"} THEN "diatom"
    ELSE IF s \in {"Copepod", "COPEPOD"} THEN "copepod"
    ELSE s

\* f'class{cls_idx}'
FmtClass(i) == <<"class0", "class1", "class2", "class3", "class4", "class5",
                 "class6", "class7">>[i + 1]

(***************************************************************************)
(* services/yolo_analyzer.py                                               *)
(***************************************************************************)
DEFAULT_SAFETY_MAP ==
    [diatom |-> "Safe", rotifer |-> "Caution", copepod |-> "Unsafe", algae |-> "Caution"]

\* the names of weights trained on the classes the safety map is written
\* for; a class index beyond them has no name.
ModelNames == [i \in 0..3 |-> <<"diatom", "rotifer", "copepod", "algae">>[i + 1]]

\* line 263: getattr(MODEL, 'names', {}) or {}.  A loaded model carries the
\* names of its classes, or it has no names attribute or an empty one
NoNames == <<>>
DetNameChoices == {ModelNames, NoNames}

\* the value of MODEL: None, or the YOLO object made from best.pt
NotLoaded == [kind |-> "None"]
Yolo(names) == [kind |-> "YOLO", names |-> names]

\* lines 262-273: one box per detection whose xyxy can be read, named by the
\* names of the model
RECURSIVE ExtractBoxes(_, _)
ExtractBoxes(raw, names) ==
    IF raw = <<>> THEN <<>>
    ELSE LET det == raw[1]
             rest == ExtractBoxes(Tail(raw), names)
         IN  IF ~det.ok THEN rest
             ELSE <<[box |-> [i \in 1..4 |-> IntOf(det.xyxy[i])],
                     confidence |-> det.conf,
                     class |-> DictGet(names, det.cls, FmtClass(det.cls))]>> \o rest

\* the keys of the dict `counts`, in insertion order (first appearance)
RECURSIVE KeyOrder(_, _)
KeyOrder(boxes, seen) ==
    IF boxes = <<>> THEN <<>>
    ELSE IF boxes[1].class \in seen THEN KeyOrder(Tail(boxes), seen)
    ELSE <<boxes[1].class>> \o KeyOrder(Tail(boxes), seen \cup {boxes[1].class})

RECURSIVE CountOf(_, _)
CountOf(boxes, c) ==
    IF boxes = <<>> THEN 0
    ELSE (IF boxes[1].class = c THEN 1 ELSE 0) + CountOf(Tail(boxes), c)

\* counts[cname] = counts.get(cname, 1) + 1: the first box of a class counted twice
Counts_FirstTwice(boxes) ==
    [c \in Range(KeyOrder(boxes, {})) |-> CountOf(boxes, c) + 1]

\* lines 278-283: counts[cname] = counts.get(cname, 0) + 1 for every box
Counts(boxes) ==
    [c \in Range(KeyOrder(boxes, {})) |-> CountOf(boxes, c)]

\* the float of a confidence given in units of 1e-5: the double nearest to it
ConfFloat(n) == FlDiv(n, 100000)

\* lines 279, 283: the confidences added to conf_sums[cname], box after box
RECURSIVE ConfsOf(_, _)
ConfsOf(boxes, c) ==
    IF boxes = <<>> THEN <<>>
    ELSE (IF boxes[1].class = c THEN <<boxes[1].confidence>> ELSE <<>>)
         \o ConfsOf(Tail(boxes), c)

\* conf_sums[cname] = conf_sums.get(cname, 0.0) + confidence: the float sum
\* of the confidences, added from the left to acc
RECURSIVE ConfSumFrom(_, _)
ConfSumFrom(confs, acc) ==
    IF confs = <<>> THEN acc
    ELSE ConfSumFrom(Tail(confs), FlAdd(acc, ConfFloat(confs[1])))

ConfSum(confs) == ConfSumFrom(confs, FlDiv(0, 1))

\* a percentage that is cut off after the first decimal instead of rounded
Percentage_Truncated(cnt, total) == IF total > 0 THEN (1000 * cnt) \div total ELSE 0

\* n / d lies exactly halfway between two integers.  A float computed from
\* n / d by a few operations is within 2^-48 of it, so it is rounded like
\* n / d whenever n / d is not halfway (for d below 10^9); when it is, the
\* double itself decides.
HalfWay(n, d) == (2 * n) % d = 0 /\ ((2 * n) \div d) % 2 = 1

\* line 288: round((cnt / total * 100), 1) if total > 0 else 0.0, in tenths:
\* the float quotient, its float product with 100, and that double rounded
Percentage(cnt, total) ==
    IF total <= 0 THEN 0
    ELSE IF HalfWay(1000 * cnt, total)
    THEN RoundScaled(FlMulInt(FlDiv(cnt, total), 100), 10)
    ELSE RoundHalfEven(1000 * cnt, total)

\* lines 287, 294: round(conf_sum / cnt, 3) of the float conf_sum, in
\* thousandths; confs are the confidences summed, in units of 1e-5
AvgConfidence(confs, cnt) ==
    IF cnt <= 0 THEN 0
    ELSE IF HalfWay(SumSeq(confs), 100 * cnt)
    THEN RoundScaled(FlDivInt(ConfSum(confs), cnt), 1000)
    ELSE RoundHalfEven(SumSeq(confs), 100 * cnt)

\* lines 286-297: the row of one class (its 'description' text is left out)
PerClassRow(cname, cnt, confs, total) ==
    [class |-> cname,
     count |-> cnt,
     percentage |-> Percentage(cnt, total),
     avg_confidence |-> AvgConfidence(confs, cnt),
     safety |-> DictGet(DEFAULT_SAFETY_MAP, cname, "Safe")]

RECURSIVE RowsOf(_, _, _)
RowsOf(keys, counts, boxes) ==
    IF keys = <<>> THEN <<>>
    ELSE <<PerClassRow(keys[1], counts[keys[1]], ConfsOf(boxes, keys[1]), Len(boxes))>>
         \o RowsOf(Tail(keys), counts, boxes)

\* lines 285-297: one row per key of counts, in the dict's order
PerClassRows(boxes) == RowsOf(KeyOrder(boxes, {}), Counts(boxes), boxes)

\* sorted(rows, key=..., reverse=True) on pairs <<key, row>>: larger keys
\* first, rows of equal key in their original order
RECURSIVE InsertSorted(_, _)
InsertSorted(item, sorted) ==
    IF sorted = <<>> THEN <<item>>
    ELSE IF item[1] > sorted[1][1] THEN <<item>> \o sorted
    ELSE <<sorted[1]>> \o InsertSorted(item, Tail(sorted))

RECURSIVE SortedDesc(_)
SortedDesc(items) ==
    IF items = <<>> THEN <<>>
    ELSE InsertSorted(items[Len(items)], SortedDesc(SubSeq(items, 1, Len(items) - 1)))

RECURSIVE Unkeyed(_)
Unkeyed(items) == IF items = <<>> THEN <<>> ELSE <<items[1][2]>> \o Unkeyed(Tail(items))

RECURSIVE KeyedByCount(_)
KeyedByCount(rows) ==
    IF rows = <<>> THEN <<>>
    ELSE <<<<rows[1].count, rows[1]>>>> \o KeyedByCount(Tail(rows))

\* lines 299-300: sorted(per_class, key=lambda x: x['count'], reverse=True)
SortPerClass(rows) == Unkeyed(SortedDesc(KeyedByCount(rows)))

\* the dominance test written >= 20.0 instead of > 20.0
OverallVerdict_AtLeast20(per_class) ==
    LET unsafe_classes == {i \in 1..Len(per_class) : per_class[i].safety = "Unsafe"}
        caution_classes == {i \in 1..Len(per_class) : per_class[i].safety = "Caution"}
    IN  IF Cardinality(unsafe_classes) > 1
           \/ \E i \in unsafe_classes : per_class[i].percentage >= 200
        THEN "Unsafe"
        ELSE IF Cardinality(caution_classes) > 0 THEN "Caution"
        ELSE "Safe"

\* lines 302-309
OverallVerdict(per_class) ==
    LET unsafe_classes == {i \in 1..Len(per_class) : per_class[i].safety = "Unsafe"}
        caution_classes == {i \in 1..Len(per_class) : per_class[i].safety = "Caution"}
    IN  IF Cardinality(unsafe_classes) > 1
           \/ \E i \in unsafe_classes : per_class[i].percentage > 200
        THEN "Unsafe"
        ELSE IF Cardinality(caution_classes) > 0 THEN "Caution"
        ELSE "Safe"

\* lines 275-309: the aggregation of analyze_image_bytes
Aggregate(boxes) ==
    LET Result(per_class) ==
            [total_detections |-> Len(boxes),
             per_class |-> per_class,
             overall_verdict |-> OverallVerdict(per_class)]
    IN  Result(SortPerClass(PerClassRows(boxes)))

\* lines 240-344.  image_ok: the bytes decode; predict_ok: MODEL.predict returns
AnalyzeImageBytesResult(model, image_ok, predict_ok, raw) ==
    IF model.kind = "None" THEN
        [kind |-> "raise", error |-> "RuntimeError: Model not initialized",
         effects |-> <<>>]
    ELSE IF ~image_ok THEN
        [kind |-> "raise", error |-> "UnidentifiedImageError", effects |-> <<>>]
    ELSE IF ~predict_ok THEN
        [kind |-> "raise", error |-> "RuntimeError: Inference failed",
         effects |-> <<<<"predict", 0>>>>]
    ELSE
        [kind |-> "return", result |-> Aggregate(ExtractBoxes(raw, model.names)),
         effects |-> <<<<"predict", 0>>, <<"write static/results", 0>>>>]

\* The detector outputs the analyses are run on: every sequence of up to
\* MaxDet detections (one of them with coordinates that cannot be read), and
\* every sequence of up to MaxBatch readable detections ordered by class index.
RawClasses == 0..5
ReadableDets ==
    {[ok |-> TRUE, xyxy |-> <<1, 1, 7, 5>>, conf |-> 90000, cls |-> c] : c \in RawClasses}
RawDets ==
    ReadableDets \cup {[ok |-> FALSE, xyxy |-> <<0, 0, 0, 0>>, conf |-> 50000, cls |-> 2]}

ByClass(raw) == \A i \in 1..(Len(raw) - 1) : raw[i].cls <= raw[i + 1].cls

DetectorOutputs ==
    SeqsUpTo(RawDets, MaxDet)
    \cup {raw \in SeqsUpTo(ReadableDets, MaxBatch) : ByClass(raw)}

Idle == [kind |-> "none"]

\* ai_analyzer.py line 419: backend/history.json before anything wrote it.
\* text tells whether json.load can read the file ("json") or meets a file
\* that holds no JSON document ("torn"): one that was opened for writing and
\* not yet written out, or one that holds a document and the tail of a
\* longer one.  chars is the length of the file.
NoFile == [exists |-> FALSE, text |-> "json", entries |-> <<>>, chars |-> 0]

\* services/yolo_analyzer.py analyze_image_bytes called on one image
AnalyzeImageBytes(Outputs) ==
    /\ op = "none"
    /\ \E image_ok \in BOOLEAN, predict_ok \in BOOLEAN, raw \in Outputs :
        /\ (~image_ok \/ ~predict_ok \/ MODEL.kind = "None") => raw = <<>>
        /\ ~image_ok => predict_ok
        /\ LET r == AnalyzeImageBytesResult(MODEL, image_ok, predict_ok, raw)
           IN  /\ op' = "analyze_image_bytes"
               /\ req' = [image_ok |-> image_ok, predict_ok |-> predict_ok, raw |-> raw]
               /\ effects' = r.effects
               /\ resp' = [x \in DOMAIN r \ {"effects"} |-> r[x]]
        /\ UNCHANGED <<models, snapshots_store, uploading, saving, clock, db, history_json>>

\* services/yolo_analyzer.py initialize_model: ultralytics importable and the
\* weights file present, or an exception that leaves MODEL as it was.  names:
\* what the weights that are loaded carry
InitializeModel ==
    /\ op = "none"
    /\ \E import_ok \in BOOLEAN, file_ok \in BOOLEAN, load_ok \in BOOLEAN,
          names \in DetNameChoices :
        /\ (~import_ok => file_ok /\ load_ok) /\ (~file_ok => load_ok)
        /\ ~(import_ok /\ file_ok /\ load_ok) => names = ModelNames
        /\ op' = "initialize_model"
        /\ req' = [import_ok |-> import_ok, file_ok |-> file_ok, load_ok |-> load_ok,
                   names |-> names]
        /\ effects' = IF import_ok /\ file_ok THEN <<<<"load", 0>>>> ELSE <<>>
        /\ IF import_ok /\ file_ok /\ load_ok
           THEN /\ MODEL' = Yolo(names)
                /\ resp' = [kind |-> "return"]
           ELSE /\ MODEL' = MODEL
                /\ resp' = [kind |-> "raise",
                            error |-> IF ~import_ok THEN "ImportError"
                                      ELSE IF ~file_ok THEN "FileNotFoundError"
                                      ELSE "Exception"]
        /\ UNCHANGED <<wrapper, yolo, ai_model, detection_model, classification_model,
                       snapshots_store, uploading, saving, clock, db, history_json>>

\* the caller has its answer; the process waits for the next call
Deliver ==
    /\ op # "none"
    /\ op' = "none"
    /\ req' = Idle
    /\ effects' = <<>>
    /\ resp' = Idle
    /\ UNCHANGED <<models, snapshots_store, uploading, saving, clock, db, history_json>>

InitCommon ==
    /\ MODEL = NotLoaded
    /\ wrapper = [type |-> "mock", model |-> "None", class_names |-> NoNames]
    /\ yolo = [kind |-> "unset"]
    /\ ai_model = "unset"
    /\ detection_model = [kind |-> "unset"]
    /\ classification_model = [kind |-> "unset"]
    /\ snapshots_store = <<>>
    /\ uploading = <<>>
    /\ saving = <<>>
    /\ clock = 0
    /\ db = <<>>
    /\ op = "none"
    /\ req = Idle
    /\ effects = <<>>
    /\ resp = Idle
    /\ history_json = NoFile

(***************************************************************************)
(* SpecAnalyze: initialize_model and analyze_image_bytes                   *)
(***************************************************************************)
AnalyzeAny == AnalyzeImageBytes(DetectorOutputs)

NextAnalyze == InitializeModel \/ AnalyzeAny \/ Deliver

SpecAnalyze == InitCommon /\ [][NextAnalyze]_vars


(***************************************************************************)
(* services/yolo_pipeline.py and main.py                                   *)
(***************************************************************************)
Max(a, b) == IF a >= b THEN a ELSE b
Min(a, b) == IF a <= b THEN a ELSE b

\* f'class_{cls_idx}'
FmtClass_(i) == <<"class_0", "class_1", "class_2", "class_3", "class_4", "class_5",
                  "class_6", "class_7">>[i + 1]

\* the names a classification model carries when it carries any
ClsNames == [i \in 0..2 |-> <<"rotifer", "algae", "diatom">>[i + 1]]

\* getattr(model, 'names', {}) or {} of a classification model
ClsNameChoices == {ClsNames, NoNames}

\* What becomes of one crop.  "na": the box has no crop that is looked at;
\* "nocrop": the conversion of the crop to a PIL image raises, and the
\* classification model is not called; "raise": the classification model
\* raises; "top": its result has probs with top-1 index idx at conf;
\* "boxes": its result has no probs but boxes, the first with confidence
\* conf; "noprobs": its result has neither.
NoOutcome == [kind |-> "na", idx |-> 0, conf |-> 0]
NoCrop == [kind |-> "nocrop", idx |-> 0, conf |-> 0]
ClsOutcomes ==
    {[kind |-> "raise", idx |-> 0, conf |-> 0],
     [kind |-> "top", idx |-> 1, conf |-> 99996],
     [kind |-> "boxes", idx |-> 0, conf |-> 42000]}
RareOutcomes ==
    {NoCrop, [kind |-> "noprobs", idx |-> 0, conf |-> 0]}

\* clamping without the lower bound 0
Clamp_NoFloor(v, n) == Min(n - 1, v)

\* lines 114-117: max(0, min(w - 1, x))
Clamp(v, n) == Max(0, Min(n - 1, v))

\* lines 97, 113-117: the integer box, clamped to the image
ClampedBox(xyxy, w, h) ==
    <<Clamp(IntOf(xyxy[1]), w), Clamp(IntOf(xyxy[2]), h),
      Clamp(IntOf(xyxy[3]), w), Clamp(IntOf(xyxy[4]), h)>>

\* a box is handed on only if both of its sides are degenerate
Degenerate_BothSides(b) == b[3] <= b[1] /\ b[4] <= b[2]

\* line 119: x2c <= x1c or y2c <= y1c
Degenerate(b) == b[3] <= b[1] \/ b[4] <= b[2]

\* lines 130-161: label and confidence of one box after classification.
\* With probs the confidence is the top-1 confidence and the label the
\* classifier's name of the top-1 index, if it has one (line 147); without
\* probs the label stays and the confidence is that of the result's first
\* box, if it has one (lines 153-156).
Refined(name, conf, out, cls_names) ==
    IF out.kind = "top"
    THEN [class_name |-> DictGet(cls_names, out.idx, name), confidence |-> out.conf]
    ELSE IF out.kind = "boxes" THEN [class_name |-> name, confidence |-> out.conf]
    ELSE [class_name |-> name, confidence |-> conf]

\* line 172: round(float(final_conf), 4), in units of 1e-4
RoundConf(conf) ==
    IF HalfWay(conf, 10) THEN RoundScaled(ConfFloat(conf), 10000)
    ELSE RoundHalfEven(conf, 10)

\* the classification model is called on the crop (line 136)
Classifies(out) == out.kind \notin {"na", "nocrop"}

\* lines 111-173: the loop over the boxes.  Returns the detections and the
\* numbers of the boxes whose crop was given to the classification model.
RECURSIVE PipelineLoop(_, _, _, _, _, _)
PipelineLoop(boxes, i, w, h, det_names, cls_names) ==
    IF i > Len(boxes) THEN [detections |-> <<>>, classified |-> <<>>]
    ELSE LET rest == PipelineLoop(boxes, i + 1, w, h, det_names, cls_names)
             b == ClampedBox(boxes[i].xyxy, w, h)
             final == Refined(DictGet(det_names, boxes[i].cls, FmtClass_(boxes[i].cls)),
                              boxes[i].conf, boxes[i].out, cls_names)
         IN  IF Degenerate(b) THEN rest
             ELSE [detections |->
                       <<[bbox |-> b,
                          class_name |-> final.class_name,
                          confidence |-> RoundConf(final.confidence)]>>
                       \o rest.detections,
                   classified |-> (IF Classifies(boxes[i].out) THEN <<i>> ELSE <<>>)
                                  \o rest.classified]

\* lines 101-106: a box read off the raw result, its class index set to 0
RECURSIVE WithClassZero(_)
WithClassZero(boxes) ==
    IF boxes = <<>> THEN <<>>
    ELSE <<[boxes[1] EXCEPT !.cls = 0]>> \o WithClassZero(Tail(boxes))

\* How the result of the detection model is read.  arrays: the number of
\* boxes lines 93-98 append; raised: those lines raise (an array that
\* cannot be fetched, a coordinate or class that is no number); raw: the
\* number of boxes lines 101-106 then append before they raise in turn or
\* come to the end.
ReadAll(boxes) == [arrays |-> Len(boxes), raised |-> FALSE, raw |-> 0]

PipelineReads(boxes) ==
    {ReadAll(boxes)}
    \cup {[arrays |-> k, raised |-> TRUE, raw |-> j] :
              k \in 0..Max(Len(boxes) - 1, 0), j \in 0..Len(boxes)}

\* lines 89-108: the boxes the loop of line 111 goes through
ReadBoxes(boxes, read) ==
    SubSeq(boxes, 1, read.arrays)
    \o (IF read.raised THEN WithClassZero(SubSeq(boxes, 1, read.raw)) ELSE <<>>)

\* lines 69-178: YoloPipeline.run(image_array=img); detect_ok: the detection
\* model returns
PipelineRun(detect_ok, read, boxes, w, h, det_names, cls_names) ==
    IF ~detect_ok THEN [kind |-> "raise", error |-> "Exception"]
    ELSE LET r == PipelineLoop(ReadBoxes(boxes, read), 1, w, h, det_names, cls_names)
         IN  [kind |-> "return", detections |-> r.detections, classified |-> r.classified]

\* a constructor that is content with the detection model
YoloPipelineInit_DetectionOnly(import_ok, det_exists, cls_exists, det_loads, cls_loads, det_names, cls_names) ==
    IF ~import_ok THEN [kind |-> "raise", error |-> "ImportError", effects |-> <<>>]
    ELSE IF ~det_exists THEN
        [kind |-> "raise", error |-> "FileNotFoundError", effects |-> <<>>]
    ELSE IF ~det_loads THEN
        [kind |-> "raise", error |-> "Exception", effects |-> <<<<"load detection", 0>>>>]
    ELSE IF ~(cls_exists /\ cls_loads) THEN
        [kind |-> "return", det_names |-> det_names, cls_names |-> NoNames,
         effects |-> <<<<"load detection", 0>>>>]
    ELSE
        [kind |-> "return", det_names |-> det_names, cls_names |-> cls_names,
         effects |-> <<<<"load detection", 0>>, <<"load classification", 0>>>>]

\* yolo_pipeline.py lines 20-57: YoloPipeline.__init__ imports ultralytics,
\* looks for the two weight files, loads them, detection model first, and
\* keeps the names the two models carry
YoloPipelineInit(import_ok, det_exists, cls_exists, det_loads, cls_loads, det_names, cls_names) ==
    IF ~import_ok THEN [kind |-> "raise", error |-> "ImportError", effects |-> <<>>]
    ELSE IF ~det_exists \/ ~cls_exists THEN
        [kind |-> "raise", error |-> "FileNotFoundError", effects |-> <<>>]
    ELSE IF ~det_loads THEN
        [kind |-> "raise", error |-> "Exception", effects |-> <<<<"load detection", 0>>>>]
    ELSE IF ~cls_loads THEN
        [kind |-> "raise", error |-> "Exception",
         effects |-> <<<<"load detection", 0>>, <<"load classification", 0>>>>]
    ELSE
        [kind |-> "return", det_names |-> det_names, cls_names |-> cls_names,
         effects |-> <<<<"load detection", 0>>, <<"load classification", 0>>>>]

\* main.py lines 33-42: app.state.yolo is the YoloPipeline, or None when its
\* constructor raised
StartupEvent ==
    /\ yolo.kind = "unset"
    /\ op = "none"
    /\ \E import_ok \in BOOLEAN, det_exists \in BOOLEAN, cls_exists \in BOOLEAN,
          det_loads \in BOOLEAN, cls_loads \in BOOLEAN,
          det_names \in DetNameChoices, cls_names \in ClsNameChoices :
        LET r == YoloPipelineInit(import_ok, det_exists, cls_exists, det_loads, cls_loads,
                                  det_names, cls_names)
        IN
        /\ ~import_ok => det_exists /\ cls_exists
        /\ ~(import_ok /\ det_exists /\ cls_exists) => det_loads /\ cls_loads
        /\ ~det_loads => cls_loads
        /\ ~(import_ok /\ det_exists /\ cls_exists /\ det_loads) => det_names = ModelNames
        /\ ~(import_ok /\ det_exists /\ cls_exists /\ det_loads /\ cls_loads)
              => cls_names = ClsNames
        /\ yolo' = IF r.kind = "return"
                   THEN [kind |-> "YoloPipeline", det_names |-> r.det_names,
                         cls_names |-> r.cls_names]
                   ELSE [kind |-> "None"]
        /\ op' = "startup_event"
        /\ req' = [import_ok |-> import_ok, det_exists |-> det_exists,
                   cls_exists |-> cls_exists, det_loads |-> det_loads,
                   cls_loads |-> cls_loads, det_names |-> det_names,
                   cls_names |-> cls_names]
        /\ effects' = r.effects
        /\ resp' = [kind |-> "return"]
    /\ UNCHANGED <<MODEL, wrapper, ai_model, detection_model, classification_model,
                   snapshots_store, uploading, saving, clock, db, history_json>>

\* The boxes the detection model emits, in half pixels: inside the image,
\* beyond it on both sides, inverted, on the right edge, of zero width,
\* above the image.
BoxShapes ==
    {<<2, 1, 2 * ImgW - 2, 2 * ImgH - 1>>,
     <<-3, 1, 2 * ImgW + 3, 2 * ImgH + 4>>,
     <<5, 1, 2, 2 * ImgH - 1>>,
     <<2 * ImgW - 2, 1, 2 * ImgW, 2 * ImgH - 1>>,
     <<3, 1, 3, 2 * ImgH - 1>>,
     <<2, -4, 2 * ImgW - 2, 0>>}

\* exactly the crops of positive area are looked at
OutcomesFit(boxes, w, h) ==
    \A i \in 1..Len(boxes) :
        (boxes[i].out = NoOutcome) <=> Degenerate(ClampedBox(boxes[i].xyxy, w, h))

PipelineBoxes ==
    {b \in {[xyxy |-> g, conf |-> 87654, cls |-> 0, out |-> o] :
                g \in BoxShapes, o \in ClsOutcomes \cup {NoOutcome}}
            \cup {[xyxy |-> <<2, 1, 2 * ImgW - 2, 2 * ImgH - 1>>, conf |-> 87654,
                    cls |-> 4, out |-> o] : o \in ClsOutcomes} :
        OutcomesFit(<<b>>, ImgW, ImgH)}

\* boxes whose crop meets one of the rarer outcomes
RareBoxes ==
    {[xyxy |-> <<2, 1, 2 * ImgW - 2, 2 * ImgH - 1>>, conf |-> 87654, cls |-> c, out |-> o] :
        c \in {0, 4}, o \in RareOutcomes}

\* The detector outputs YoloPipeline.run is given: up to MaxBoxes boxes with
\* the two common outcomes, read in full by a pipeline whose models carry
\* names; up to MaxRareBoxes boxes of any outcome, for any pipeline; and up
\* to MaxRawBoxes boxes that lines 93-98 fail to read.
CommonInputs == SeqsUpTo(PipelineBoxes, MaxBoxes)

RareInputs == SeqsUpTo(PipelineBoxes \cup RareBoxes, MaxRareBoxes)

RawInputs == SeqsUpTo(PipelineBoxes, MaxRawBoxes)

NamedPipeline ==
    yolo.kind = "YoloPipeline" /\ yolo.det_names = ModelNames /\ yolo.cls_names = ClsNames

\* main.py line 97: what cv2.imdecode does with the bytes of the upload: it
\* returns an image, returns None for bytes that are no image, or raises
\* cv2.error for an empty buffer
DecodeOutcomes == {"image", "none", "raise"}

\* main.py lines 87-111: the handler of POST /ai/analyze on one request
AiAnalyzeOn(decoded, detect_ok, boxes, read) ==
    /\ (decoded # "image" \/ ~detect_ok \/ yolo.kind = "None")
          => boxes = <<>> /\ read = ReadAll(<<>>)
    /\ (decoded # "image" \/ yolo.kind = "None") => detect_ok
    /\ op' = "ai_analyze"
    /\ req' = [decoded |-> decoded, detect_ok |-> detect_ok, boxes |-> boxes,
               read |-> read, w |-> ImgW, h |-> ImgH]
    /\ IF decoded = "raise" THEN
           /\ resp' = [kind |-> "return", http |-> 200, status |-> "ERROR",
                       error |-> "cv2.error"]
           /\ effects' = <<>>
       ELSE IF decoded = "none" THEN
           /\ resp' = [kind |-> "return", http |-> 200, status |-> "ERROR",
                       error |-> "Invalid image format"]
           /\ effects' = <<>>
       ELSE IF yolo.kind = "None" THEN
           /\ resp' = [kind |-> "return", http |-> 200, status |-> "ERROR",
                       error |-> "Yolo pipeline not initialized"]
           /\ effects' = <<>>
       ELSE LET r == PipelineRun(detect_ok, read, boxes, ImgW, ImgH,
                                 yolo.det_names, yolo.cls_names)
            IN  IF r.kind = "raise" THEN
                    /\ resp' = [kind |-> "return", http |-> 200, status |-> "ERROR",
                                error |-> r.error]
                    /\ effects' = <<<<"detect", 0>>>>
                ELSE
                    /\ resp' = [kind |-> "return", http |-> 200, status |-> "OK",
                                detections |-> r.detections]
                    /\ effects' = <<<<"detect", 0>>>> \o
                          [k \in 1..Len(r.classified) |-> <<"classify", r.classified[k]>>]
    /\ UNCHANGED <<models, snapshots_store, uploading, saving, clock, db, history_json>>

\* main.py lines 87-111: POST /ai/analyze
AiAnalyze ==
    /\ yolo.kind # "unset"
    /\ op = "none"
    /\ \E decoded \in DecodeOutcomes, detect_ok \in BOOLEAN :
        \/ \E boxes \in RareInputs : AiAnalyzeOn(decoded, detect_ok, boxes, ReadAll(boxes))
        \/ /\ NamedPipeline
           /\ \E boxes \in CommonInputs :
                  AiAnalyzeOn(decoded, detect_ok, boxes, ReadAll(boxes))
        \/ /\ NamedPipeline
           /\ \E boxes \in RawInputs : \E read \in PipelineReads(boxes) :
                  AiAnalyzeOn(decoded, detect_ok, boxes, read)

(***************************************************************************)
(* SpecPipeline: startup_event, then POST /ai/analyze                      *)
(***************************************************************************)
NextPipeline == StartupEvent \/ AiAnalyze \/ Deliver

SpecPipeline == InitCommon /\ [][NextPipeline]_vars

(***************************************************************************)
(* routes/live_detect.py                                                   *)
(***************************************************************************)
\* the values of int(datetime.utcnow().timestamp() * 1000) at the uploads
SnapTimes == {1}

\* ids a client asks about that were never issued
UnknownIds == {0}

\* dict.update: the keys of upd set in d
DictUpdate(d, upd) ==
    [k \in DOMAIN d \cup DOMAIN upd |-> IF k \in DOMAIN upd THEN upd[k] ELSE d[k]]

\* lines 40-103: load_models(), run when the module is imported; the weights
\* it loads carry names of DetNames and of ClsNamesOf
LoadModelsAt(DetNames, ClsNamesOf) ==
    /\ detection_model.kind = "unset"
    /\ op = "none"
    /\ \E import_ok \in BOOLEAN, det_exists \in BOOLEAN, det_loads \in BOOLEAN,
          cls_exists \in BOOLEAN, cls_loads \in BOOLEAN,
          det_names \in DetNames, cls_names \in ClsNamesOf :
        /\ ~import_ok => det_exists /\ cls_exists
        /\ ~(import_ok /\ det_exists) => det_loads
        /\ ~(import_ok /\ cls_exists) => cls_loads
        /\ ~(import_ok /\ det_exists /\ det_loads) => det_names = ModelNames
        /\ ~(import_ok /\ cls_exists /\ cls_loads) => cls_names = ClsNames
        /\ detection_model' =
              IF import_ok /\ det_exists /\ det_loads
              THEN [kind |-> "YOLO", names |-> det_names] ELSE [kind |-> "None"]
        /\ classification_model' =
              IF import_ok /\ cls_exists /\ cls_loads
              THEN [kind |-> "YOLO", names |-> cls_names] ELSE [kind |-> "None"]
        /\ op' = "load_models"
        /\ req' = [import_ok |-> import_ok, det_exists |-> det_exists,
                   det_loads |-> det_loads, cls_exists |-> cls_exists,
                   cls_loads |-> cls_loads, det_names |-> det_names,
                   cls_names |-> cls_names]
        /\ effects' = (IF import_ok /\ det_exists
                       THEN <<<<"load detection", 0>>>> ELSE <<>>)
                      \o (IF import_ok /\ cls_exists
                          THEN <<<<"load classification", 0>>>> ELSE <<>>)
        /\ resp' = [kind |-> "return"]
    /\ UNCHANGED <<MODEL, wrapper, yolo, ai_model, snapshots_store, uploading, saving, clock, db, history_json>>

LoadModels == LoadModelsAt(DetNameChoices, ClsNameChoices)

\* the filenames of the uploads; "" is an upload without one
SnapNames == {"", "drop.jpg"}

\* the ids a client asks about: those that were issued, and one that never was
AskedIds ==
    SnapTimes \cup UnknownIds \cup DOMAIN snapshots_store
    \cup {uploading[k].id : k \in 1..Len(uploading)}

\* lines 109-123: POST /api/upload-snapshot/ as far as `await image.read()`.
\* The handler takes its id off the clock (line 120) and waits for the body;
\* other handlers run meanwhile.  An HTTPException raised inside the try
\* block is caught by `except Exception` and answered as a 500.
UploadSnapshotAt(Names, Times) ==
    /\ detection_model.kind # "unset"
    /\ op = "none"
    /\ \E filename \in Names, now \in Times :
        /\ now >= clock
        /\ IF filename = "" THEN
               /\ op' = "upload_snapshot"
               /\ req' = [filename |-> filename, now |-> now, write_ok |-> TRUE]
               /\ resp' = [kind |-> "raise", http |-> 500,
                           detail |-> "Upload failed: 400: No filename provided"]
               /\ effects' = <<>>
               /\ UNCHANGED <<uploading, clock>>
           ELSE
               /\ Len(uploading) < MaxUploading
               /\ uploading' = Append(uploading, [id |-> now, filename |-> filename])
               /\ clock' = now
               /\ UNCHANGED <<op, req, effects, resp>>
    /\ UNCHANGED <<models, snapshots_store, saving, db, history_json>>

UploadSnapshot == UploadSnapshotAt(SnapNames, SnapTimes)

\* lines 123-147: one of the waiting handlers has its body and goes on to
\* the end: it writes the file and the entry under the id it took.
\* write_ok: the body is read and the file written; later: the clock at
\* line 132.
UploadSnapshotStoreAt(Times) ==
    /\ op = "none"
    /\ \E k \in 1..Len(uploading), later \in Times, write_ok \in BOOLEAN :
        LET h == uploading[k] IN
        /\ later >= clock
        /\ ~write_ok => later = clock
        /\ uploading' = SubSeq(uploading, 1, k - 1)
                        \o SubSeq(uploading, k + 1, Len(uploading))
        /\ op' = "upload_snapshot"
        /\ req' = [filename |-> h.filename, now |-> h.id, write_ok |-> write_ok]
        /\ IF ~write_ok THEN
               /\ resp' = [kind |-> "raise", http |-> 500, detail |-> "Upload failed: OSError"]
               /\ effects' = <<>>
               /\ UNCHANGED <<snapshots_store, clock>>
           ELSE
               /\ resp' = [kind |-> "return", http |-> 200, id |-> h.id]
               /\ effects' = <<<<"write snapshots", h.id>>>>
               /\ clock' = later
               /\ snapshots_store' =
                     DictUpdate(snapshots_store,
                                [i \in {h.id} |->
                                    [path |-> h.id, timestamp |-> later,
                                     filename |-> h.filename, analyzed |-> FALSE]])
    /\ UNCHANGED <<models, saving, db, history_json>>

UploadSnapshotStore == UploadSnapshotStoreAt(SnapTimes)

\* img[y1:y2, x1:x2]: the length of the slice a:b of an axis of length n
SliceLen(a, b, n) ==
    LET lo == IF a < 0 THEN Max(a + n, 0) ELSE Min(a, n)
        hi == IF b < 0 THEN Max(b + n, 0) ELSE Min(b, n)
    IN  Max(0, hi - lo)

\* line 243: crop.size of the box [x1, y1, x2, y2]
CropSize(box, w, h) == SliceLen(box[2], box[4], h) * SliceLen(box[1], box[3], w)

\* How lines 209-219 read the result of the detection model.  "ok": every
\* box; "arrays": one of the three arrays cannot be fetched; else the loop
\* raises at box `at`, on a coordinate ("coord", line 215), on the class
\* index ("cls", line 216) or on the confidence ("conf", line 217).
ParseAll == [kind |-> "ok", at |-> 0]

SnapshotParses(dets) ==
    {ParseAll}
    \cup (IF dets = <<>> THEN {}
          ELSE {[kind |-> "arrays", at |-> 0]}
               \cup {[kind |-> k, at |-> i] :
                         k \in {"coord", "cls", "conf"}, i \in 1..Len(dets)})

RECURSIVE Indexed(_)
Indexed(dets) ==
    IF dets = <<>> THEN <<>>
    ELSE Append(Indexed(SubSeq(dets, 1, Len(dets) - 1)),
                [xyxy |-> dets[Len(dets)].xyxy, conf |-> dets[Len(dets)].conf,
                 cls |-> dets[Len(dets)].cls, out |-> dets[Len(dets)].out,
                 has_cls |-> TRUE])

\* lines 203-219: the entries of boxes with the entries of class_idxs and
\* confidences at the same index.  has_cls tells whether class_idxs has
\* one; a confidence that is missing is the 0.0 of line 231.
ParsedBoxes(dets, parse) ==
    IF parse.kind = "ok" THEN Indexed(dets)
    ELSE IF parse.kind = "arrays" THEN <<>>
    ELSE LET before == Indexed(SubSeq(dets, 1, parse.at - 1))
             d == Indexed(<<dets[parse.at]>>)[1]
         IN  IF parse.kind = "coord" THEN before
             ELSE IF parse.kind = "cls"
             THEN Append(before, [d EXCEPT !.conf = 0, !.has_cls = FALSE])
             ELSE Append(before, [d EXCEPT !.conf = 0])

\* lines 240-258: label and confidence of one box after classification; a
\* result without probs changes nothing
SnapshotRefined(name, conf, out, cls_names) ==
    IF out.kind = "top"
    THEN [class_name |-> DictGet(cls_names, out.idx, name), confidence |-> out.conf]
    ELSE [class_name |-> name, confidence |-> conf]

\* lines 229-264: boxes_info
RECURSIVE BoxesInfo(_, _, _)
BoxesInfo(parsed, det_names, cls_names) ==
    IF parsed = <<>> THEN <<>>
    ELSE LET d == parsed[1]
             det_cls_name == IF d.has_cls
                             THEN DictGet(det_names, d.cls, FmtClass_(d.cls))
                             ELSE "unknown"
             final == SnapshotRefined(det_cls_name, d.conf, d.out, cls_names)
         IN  <<[box |-> [i \in 1..4 |-> IntOf(d.xyxy[i])],
                confidence |-> final.confidence,
                class |-> final.class_name]>>
             \o BoxesInfo(Tail(parsed), det_names, cls_names)

\* line 252: the names of the classification model; it is asked for them
\* only when it is loaded
ClassifierNames ==
    IF classification_model.kind = "YOLO" THEN classification_model.names ELSE NoNames

\* boxes_info of a result that is read in full, by the models that are loaded
BoxesInfoOf(dets) ==
    BoxesInfo(ParsedBoxes(dets, ParseAll), detection_model.names, ClassifierNames)

\* the boxes whose crop is given to the classification model, by number
RECURSIVE SnapshotClassified(_, _, _, _)
SnapshotClassified(dets, i, w, h) ==
    IF i > Len(dets) THEN <<>>
    ELSE (IF Classifies(dets[i].out) THEN <<<<"classify", i>>>> ELSE <<>>)
         \o SnapshotClassified(dets, i + 1, w, h)

\* lines 281-283: the safety tier of a class name
SnapshotSafety(cname) ==
    IF Lower(cname) \in {"rotifer"} THEN "Unsafe"
    ELSE IF Lower(cname) \in {"algae"} THEN "Caution" ELSE "Safe"

\* lines 276-291: one row per class, in the order of first appearance
RECURSIVE SnapshotRows(_, _)
SnapshotRows(keys, boxes) ==
    IF keys = <<>> THEN <<>>
    ELSE LET cnt == CountOf(boxes, keys[1])
         IN  <<[class |-> keys[1],
                count |-> cnt,
                percentage |-> Percentage(cnt, Len(boxes)),
                avg_confidence |-> AvgConfidence(ConfsOf(boxes, keys[1]), cnt),
                safety |-> SnapshotSafety(keys[1])]>> \o SnapshotRows(Tail(keys), boxes)

\* the sort key (count, avg_confidence) as one number; avg_confidence <= 1000
RECURSIVE KeyedByCountConf(_)
KeyedByCountConf(rows) ==
    IF rows = <<>> THEN <<>>
    ELSE <<<<rows[1].count * 1001 + rows[1].avg_confidence, rows[1]>>>>
         \o KeyedByCountConf(Tail(rows))

\* the flag read off the primary row alone, which an empty analysis lacks
SafeFlag_NeedsPrimary(count, per_class_sorted) ==
    count > 0 /\ per_class_sorted[1].safety # "Unsafe"

\* lines 296-314: the safe flag
SafeFlag(count, per_class_sorted) ==
    IF count = 0 THEN TRUE
    ELSE per_class_sorted[1].safety # "Unsafe"

\* lines 268-314: what the analysis stores and returns
SnapshotAnalysis(boxes_info) ==
    LET count == Len(boxes_info)
        per_class_sorted ==
            Unkeyed(SortedDesc(KeyedByCountConf(
                SnapshotRows(KeyOrder(boxes_info, {}), boxes_info))))
    IN  [species |-> IF count = 0 THEN "None Detected" ELSE per_class_sorted[1].class,
         count |-> count,
         safe |-> SafeFlag(count, per_class_sorted),
         confidence |-> IF count = 0 THEN 0 ELSE per_class_sorted[1].avg_confidence,
         boxes |-> boxes_info,
         per_class_stats |-> per_class_sorted]

\* line 182-194: the answer when no detection model is loaded
NoModelAnswer ==
    [species |-> "No Model", count |-> 0, safe |-> TRUE, confidence |-> 0,
     boxes |-> <<>>, per_class_stats |-> <<>>]

\* The boxes the detection model emits on the live page, in half pixels:
\* inside the image, and of zero width.
SnapShapes ==
    {<<2, 1, 2 * ImgW - 2, 2 * ImgH - 1>>,
     <<3, 1, 3, 2 * ImgH - 1>>}

SnapDets ==
    {[xyxy |-> g, conf |-> 87654, cls |-> c, out |-> o] :
        g \in SnapShapes, c \in {0, 1}, o \in ClsOutcomes \cup {NoOutcome}}
    \cup {[xyxy |-> g, conf |-> 87654, cls |-> 0, out |-> o] :
              g \in SnapShapes, o \in RareOutcomes}

\* lines 240-243: the classification model is asked about a crop exactly
\* when it is loaded and the crop has elements
SnapshotOutcomesFit(dets, w, h) ==
    \A i \in 1..Len(dets) :
        (dets[i].out = NoOutcome) <=>
            \/ classification_model.kind = "None"
            \/ CropSize([k \in 1..4 |-> IntOf(dets[i].xyxy[k])], w, h) = 0

\* live_detect.py line 336: cv2.imwrite(annotated_path, img_annotated).  It
\* writes the file and returns True, or writes nothing and returns False
\* (directory gone, no permission, disk full), or raises cv2.error; the code
\* drops the returned value.
ImwriteOutcomes == {"written", "false", "raise"}

ImwriteEffect(imwrite, snap_id) ==
    IF imwrite = "written" THEN <<<<"write annotated", snap_id>>>> ELSE <<>>

\* lines 153-372: GET /api/analyze/{snap_id}/, the detection model emitting
\* one of Outputs
AnalyzeSnapshotOn(Outputs) ==
    /\ detection_model.kind # "unset"
    /\ op = "none"
    /\ \E snap_id \in AskedIds, file_exists \in BOOLEAN,
          image_ok \in BOOLEAN, detect_ok \in BOOLEAN :
        /\ snap_id \notin DOMAIN snapshots_store => file_exists
        /\ ~(snap_id \in DOMAIN snapshots_store /\ file_exists) => image_ok
        /\ ~(snap_id \in DOMAIN snapshots_store /\ file_exists /\ image_ok
             /\ detection_model.kind = "YOLO") => detect_ok
        /\ \E dets \in Outputs, imwrite \in ImwriteOutcomes :
            /\ ~(snap_id \in DOMAIN snapshots_store /\ file_exists /\ image_ok
                 /\ detection_model.kind = "YOLO" /\ detect_ok)
                  => dets = <<>> /\ imwrite = "written"
            /\ SnapshotOutcomesFit(dets, ImgW, ImgH)
            /\ \E parse \in SnapshotParses(dets) :
                LET known == snap_id \in DOMAIN snapshots_store
                    parsed == ParsedBoxes(dets, parse)
                IN
                /\ op' = "analyze_snapshot"
                /\ req' = [snap_id |-> snap_id, file_exists |-> file_exists,
                           image_ok |-> image_ok, detect_ok |-> detect_ok,
                           parse |-> parse, boxes |-> dets, w |-> ImgW, h |-> ImgH,
                           imwrite |-> imwrite]
                /\ IF ~known THEN
                       /\ resp' = [kind |-> "raise", http |-> 404, detail |-> "Snapshot not found"]
                       /\ effects' = <<>>
                       /\ UNCHANGED snapshots_store
                   ELSE IF ~file_exists THEN
                       /\ resp' = [kind |-> "raise", http |-> 404,
                                   detail |-> "Snapshot file not found"]
                       /\ effects' = <<>>
                       /\ UNCHANGED snapshots_store
                   ELSE IF ~image_ok THEN
                       /\ resp' = [kind |-> "raise", http |-> 400, detail |-> "Invalid image format"]
                       /\ effects' = <<>>
                       /\ UNCHANGED snapshots_store
                   ELSE IF detection_model.kind = "None" THEN
                       /\ resp' = [kind |-> "return", http |-> 200, id |-> snap_id,
                                   body |-> NoModelAnswer]
                       /\ effects' = <<>>
                       /\ UNCHANGED snapshots_store
                   ELSE IF ~detect_ok THEN
                       /\ resp' = [kind |-> "raise", http |-> 500,
                                   detail |-> "Inference failed: Exception"]
                       /\ effects' = <<<<"detect", 0>>>>
                       /\ UNCHANGED snapshots_store
                   ELSE IF imwrite = "raise" THEN
                       /\ resp' = [kind |-> "raise", http |-> 500,
                                   detail |-> "Inference failed: Exception"]
                       /\ effects' = <<<<"detect", 0>>>>
                                     \o SnapshotClassified(parsed, 1, ImgW, ImgH)
                       /\ UNCHANGED snapshots_store
                   ELSE LET a == SnapshotAnalysis(BoxesInfo(parsed, detection_model.names,
                                                            ClassifierNames))
                        IN  /\ resp' = [kind |-> "return", http |-> 200, id |-> snap_id, body |-> a]
                            /\ effects' = <<<<"detect", 0>>>>
                                          \o SnapshotClassified(parsed, 1, ImgW, ImgH)
                                          \o ImwriteEffect(imwrite, snap_id)
                            /\ snapshots_store' =
                                  DictUpdate(snapshots_store,
                                      [i \in {snap_id} |->
                                          DictUpdate(snapshots_store[snap_id],
                                                     DictUpdate(a, [analyzed |-> TRUE]))])
    /\ UNCHANGED <<models, uploading, saving, clock, db, history_json>>

AnalyzeSnapshot == AnalyzeSnapshotOn(SeqsUpTo(SnapDets, MaxSnapBoxes))

(***************************************************************************)
(* SpecLive: the live-detection page (upload, analyse a snapshot) next to  *)
(* analyze_image_bytes                                                     *)
(***************************************************************************)
LiveOutputs == SeqsUpTo(RawDets, MaxSnapBoxes)

AnalyzeLive == AnalyzeImageBytes(LiveOutputs)

\* the snapshots of this page: boxes of the first class; the classification
\* model is not asked, names the crop, or raises
LiveSnapDets == {d \in SnapDets : d.cls = 0 /\ d.out.kind \in {"na", "top", "raise"}}

AnalyzeSnapshotLive == AnalyzeSnapshotOn(SeqsUpTo(LiveSnapDets, MaxSnapBoxes))

NextLive ==
    InitializeModel \/ AnalyzeLive \/ LoadModels \/ UploadSnapshot \/ UploadSnapshotStore
    \/ AnalyzeSnapshotLive
    \/ Deliver

SpecLive == InitCommon /\ [][NextLive]_vars

(***************************************************************************)
(* services/model_loader.py, services/postprocessing.py,                   *)
(* services/inference_engine.py, database/db.py, routes/predict.py         *)
(***************************************************************************)
\* model_loader.py lines 11-48, 60-76: the class names after a load of the
\* weights.  from: "yaml" when data.yaml gives them, "model" when it does not
\* and the model has a names attribute (names), "none" when neither does: the
\* names the wrapper held are kept
NameSources == {"yaml", "model", "none"}
LoadedClassNames(class_names, from, names) ==
    IF from = "yaml" THEN ModelNames
    ELSE IF from = "model" THEN names
    ELSE class_names

\* model_loader.py lines 50-99, 103-105: initialize_model() is MODEL.load().
\* USE_TFLITE is False, so a failed YOLO load falls through to the mock,
\* which leaves class_names as they were.
ModelWrapperLoad ==
    /\ op = "none"
    /\ \E file_ok \in BOOLEAN, import_ok \in BOOLEAN, load_ok \in BOOLEAN,
          from \in NameSources, names \in DetNameChoices :
        /\ (~file_ok => import_ok /\ load_ok) /\ (~import_ok => load_ok)
        /\ ~(file_ok /\ import_ok /\ load_ok) => from = "yaml"
        /\ from # "model" => names = ModelNames
        /\ wrapper' = IF file_ok /\ import_ok /\ load_ok
                      THEN [type |-> "yolov8", model |-> "YOLO",
                            class_names |->
                                LoadedClassNames(wrapper.class_names, from, names)]
                      ELSE [type |-> "mock", model |-> "None",
                            class_names |-> wrapper.class_names]
        /\ op' = "model_loader.initialize_model"
        /\ req' = [file_ok |-> file_ok, import_ok |-> import_ok, load_ok |-> load_ok,
                   from |-> from, names |-> names]
        /\ effects' = IF file_ok /\ import_ok THEN <<<<"load", 0>>>> ELSE <<>>
        /\ resp' = [kind |-> "return"]
    /\ UNCHANGED <<MODEL, yolo, ai_model, detection_model, classification_model,
                   snapshots_store, uploading, saving, clock, db, history_json>>

\* inference_engine.py lines 9-23: the draws of the random module.  "lo"
\* takes every uniform() and randint() at its lower end, "hi" at its upper.
MockDraws == {"lo", "hi"}
MockClasses == {"diatom", "rotifer", "copepod", "algae"}

\* random.random() at the two ends of its range: 0.0 and 1 - 2^-53
RandomOf ==
    [draw \in MockDraws |->
        IF draw = "lo" THEN [m |-> <<>>, e |-> 0]
        ELSE [m |-> <<7>> \o [i \in 1..5 |-> Limb - 1], e |-> -BinaryDigits]]

\* random.uniform(a, b): a + (b - a) * self.random()
Uniform(a, b, r) == FlAdd(a, FlMul(FlSub(b, a), r))

\* lines 14-15: random.uniform(0.06, 0.25) at the two ends of its range:
\* 0.06 and 0.24999999999999997
MockSide == [draw \in MockDraws |-> Uniform(FlDiv(6, 100), FlDiv(25, 100), RandomOf[draw])]

\* lines 14-15: int(random.uniform(0.06, 0.25) * n)
MockLen(draw, n) == FloorScaled(FlMulInt(MockSide[draw], n), 1)

\* the same for the sides of the image of the model, worked out once
MockLens == [draw \in MockDraws |-> [n \in {ImgW, ImgH} |-> MockLen(draw, n)]]

MockLenOf(draw, n) == IF n \in {ImgW, ImgH} THEN MockLens[draw][n] ELSE MockLen(draw, n)

\* lines 14-22: one box of _mock_boxes; randint is at the same end of its
\* range as random()
MockBox(img_w, img_h, draw, class) ==
    LET w == MockLenOf(draw, img_w)
        h == MockLenOf(draw, img_h)
        x1 == IF draw = "lo" THEN 0 ELSE Max(1, img_w - w)
        y1 == IF draw = "lo" THEN 0 ELSE Max(1, img_h - h)
    IN  [x1 |-> x1, y1 |-> y1, x2 |-> x1 + w, y2 |-> y1 + h,
         score |-> IF draw = "lo" THEN 60000 ELSE 99000,
         class |-> class]

\* lines 9-23: _mock_boxes for the classes drawn
RECURSIVE MockBoxes(_, _, _, _)
MockBoxes(img_w, img_h, draw, classes) ==
    IF classes = <<>> THEN <<>>
    ELSE <<MockBox(img_w, img_h, draw, classes[1])>>
         \o MockBoxes(img_w, img_h, draw, Tail(classes))

\* what the random module may yield in one call: n in 1..MaxMockBoxes classes
MockChoices == {c \in SeqsUpTo(MockClasses, MaxMockBoxes) : c # <<>>}

\* postprocessing.py lines 32-37: dict(Counter(classes)) as the sequence of
\* its items
RECURSIVE CountItems(_, _)
CountItems(keys, boxes) ==
    IF keys = <<>> THEN <<>>
    ELSE <<<<keys[1], CountOf(boxes, keys[1])>>>> \o CountItems(Tail(keys), boxes)

\* Counter.most_common(1)[0][0]: the largest count, the first inserted of equals
RECURSIVE MostCommon(_)
MostCommon(items) ==
    IF Len(items) = 1 THEN items[1]
    ELSE LET rest == MostCommon(Tail(items))
         IN  IF items[1][2] >= rest[2] THEN items[1] ELSE rest

SummarizeCounts(boxes) ==
    LET counts == CountItems(KeyOrder(boxes, {}), boxes)
    IN  [counts |-> counts,
         total |-> Len(boxes),
         dominant |-> IF counts = <<>> THEN "None" ELSE MostCommon(counts)[1]]

\* inference_engine.py lines 58-68: species_list, sorted by count
RECURSIVE SpeciesItems(_, _)
SpeciesItems(counts, total) ==
    IF counts = <<>> THEN <<>>
    ELSE <<<<counts[1][2],
             [name |-> counts[1][1], count |-> counts[1][2],
              percentage |-> Percentage(counts[1][2], total)]>>>>
         \o SpeciesItems(Tail(counts), total)

\* lines 74, 118: [b["score"] for b in boxes], summed from the left
RECURSIVE Scores(_)
Scores(boxes) == IF boxes = <<>> THEN <<>> ELSE <<boxes[1].score>> \o Scores(Tail(boxes))

\* line 75
Quality(total) == IF total < 10 THEN "Good" ELSE IF total < 25 THEN "Moderate" ELSE "Poor"

\* lines 55-87 and 99-130: the result dict built from the boxes
InferenceResult(boxes) ==
    LET s == SummarizeCounts(boxes)
    IN  [boxes |-> boxes,
         counts |-> s.counts,
         total |-> s.total,
         dominant |-> s.dominant,
         quality |-> Quality(s.total),
         confidence |-> AvgConfidence(Scores(boxes), Max(Len(boxes), 1)),
         annotated_bytes |-> "jpeg",
         species |-> Unkeyed(SortedDesc(SpeciesItems(s.counts, s.total)))]

\* lines 93-130: run_inference_on_bytes_mock.  pil_ok: PIL reads the bytes
\* as an image (Image.open at line 96, and again in annotate_image_bytes)
RunInferenceOnBytesMock(pil_ok, img_w, img_h, draw, classes) ==
    IF ~pil_ok
    THEN [kind |-> "raise", error |-> "UnidentifiedImageError",
          effects |-> <<>>]
    ELSE [kind |-> "return",
          result |-> InferenceResult(MockBoxes(img_w, img_h, draw, classes)),
          effects |-> <<<<"mock boxes", 0>>>>]

\* lines 41-47: the boxes of the detector output, named by MODEL.class_names
RECURSIVE YoloBoxes(_, _)
YoloBoxes(dets, class_names) ==
    IF dets = <<>> THEN <<>>
    ELSE <<[x1 |-> IntOf(dets[1].xyxy[1]), y1 |-> IntOf(dets[1].xyxy[2]),
            x2 |-> IntOf(dets[1].xyxy[3]), y2 |-> IntOf(dets[1].xyxy[4]),
            score |-> dets[1].conf,
            class |-> DictGet(class_names, dets[1].cls, FmtClass(dets[1].cls))]>>
         \o YoloBoxes(Tail(dets), class_names)

\* lines 25-91: run_inference_on_bytes.  cv2_ok: cv2.imdecode (line 32)
\* reads the bytes as an image; pil_ok: PIL does.  Every exception of the
\* try block ends in run_inference_on_bytes_mock: the ValueError of line 34,
\* what predict raises, and what annotate_image_bytes (line 73) raises after
\* the detector has answered.
RunInferenceOnBytes(w, cv2_ok, pil_ok, detect_ok, dets, img_w, img_h, draw, classes) ==
    IF w.type = "yolov8" /\ w.model # "None" THEN
        IF ~cv2_ok THEN
            RunInferenceOnBytesMock(pil_ok, img_w, img_h, draw, classes)
        ELSE IF ~detect_ok \/ ~pil_ok THEN
            LET m == RunInferenceOnBytesMock(pil_ok, img_w, img_h, draw, classes)
            IN  [m EXCEPT !.effects = <<<<"predict", 0>>>> \o @]
        ELSE [kind |-> "return",
              result |-> InferenceResult(YoloBoxes(dets, w.class_names)),
              effects |-> <<<<"predict", 0>>>>]
    ELSE RunInferenceOnBytesMock(pil_ok, img_w, img_h, draw, classes)

\* predict.py lines 15-17
MAX_FILE_SIZE_BYTES == 10 * 1024 * 1024
ALLOWED_MIME_TYPES == {"image/jpeg", "image/jpg", "image/png"}
ALLOWED_EXTENSIONS == {".jpg", ".jpeg", ".png"}

\* a size check that turns away a body of exactly MAX_FILE_SIZE_BYTES
ValidateImageFile_StrictSize(file) ==
    /\ Lower(file.content_type) \in ALLOWED_MIME_TYPES
    /\ file.size # 0
    /\ file.size < MAX_FILE_SIZE_BYTES
    /\ Lower(file.filename[2]) \in ALLOWED_EXTENSIONS

\* predict.py lines 20-44: _validate_image_file.  A filename is the pair
\* os.path.splitext makes of it; a missing content type or filename is "".
ValidateImageFile(file) ==
    /\ Lower(file.content_type) \in ALLOWED_MIME_TYPES
    /\ file.size # 0
    /\ file.size <= MAX_FILE_SIZE_BYTES
    /\ Lower(file.filename[2]) \in ALLOWED_EXTENSIONS

\* The uploads sent to POST /predict: two that pass the validation, and one
\* for each way of failing it.
Uploads ==
    {[content_type |-> "image/jpeg", size |-> 1, filename |-> <<"drop", ".jpg">>],
     [content_type |-> "IMAGE/PNG", size |-> MAX_FILE_SIZE_BYTES,
      filename |-> <<"drop", ".PNG">>],
     [content_type |-> "image/gif", size |-> 1, filename |-> <<"drop", ".jpg">>],
     [content_type |-> "", size |-> 1, filename |-> <<"drop", ".jpg">>],
     [content_type |-> "image/jpeg", size |-> 0, filename |-> <<"drop", ".jpg">>],
     [content_type |-> "image/jpeg", size |-> MAX_FILE_SIZE_BYTES + 1,
      filename |-> <<"drop", ".jpg">>],
     [content_type |-> "image/jpeg", size |-> 1, filename |-> <<"drop", ".gif">>],
     [content_type |-> "image/jpeg", size |-> 1, filename |-> <<"", "">>]}

\* the detector output behind POST /predict, in half pixels
PredictDets ==
    {[xyxy |-> <<2, 1, 2 * ImgW - 2, 2 * ImgH - 1>>, conf |-> 87654, cls |-> c] :
        c \in {1, 5}}

\* db.py lines 30-41: the row insert_detection writes; json.dumps and str
\* wrap the value they serialise
InsertedRow(table, rec) ==
    [id |-> Len(table) + 1,
     timestamp |-> rec.timestamp,
     image_path |-> rec.image_path,
     counts_json |-> [json |-> rec.counts],
     total |-> rec.total,
     dominant |-> rec.dominant,
     quality |-> rec.quality,
     confidence |-> [str |-> rec.confidence]]

\* predict.py lines 142-152: the detections of the response
RECURSIVE ResponseDetections(_)
ResponseDetections(boxes) ==
    IF boxes = <<>> THEN <<>>
    ELSE <<[class |-> boxes[1].class, confidence |-> boxes[1].score,
            x1 |-> boxes[1].x1, y1 |-> boxes[1].y1,
            x2 |-> boxes[1].x2, y2 |-> boxes[1].y2]>>
         \o ResponseDetections(Tail(boxes))

\* predict.py lines 87-90, 113-116: an error answer has the one key "error"
PredictError(code, text) == [kind |-> "return", http |-> code, error |-> text]

\* the value of inserted_id when insert_detection raised: None
NoId == -1

\* the answer is an error as soon as the row could not be stored
PredictResponse_NeedsRow(result, timestamp_filename, annotate_ok, inserted_id, now) ==
    IF inserted_id = NoId
    THEN PredictError(500, "Model failed to process image. Try a clearer image.")
    ELSE [kind |-> "return", http |-> 200,
          analysis_id |-> inserted_id,
          total_count |-> result.total,
          species |-> result.species,
          summary |-> <<"Detected", result.total, "organisms across",
                        Len(result.species), "species.">>,
          annotated_image_url |->
              IF annotate_ok THEN <<"static/results", "generated.jpg">>
              ELSE <<"static/results", "unknown.jpg">>,
          detections |-> ResponseDetections(result.boxes),
          counts |-> result.counts,
          timestamp |-> now,
          uploaded_image_url |-> <<"uploaded_images", timestamp_filename>>,
          id |-> inserted_id]

\* predict.py lines 172-187: the content of the 200 answer, key by key
PredictResponse(result, timestamp_filename, annotate_ok, inserted_id, now) ==
    [kind |-> "return", http |-> 200,
     analysis_id |-> IF inserted_id = NoId THEN 0 ELSE inserted_id,
     total_count |-> result.total,
     species |-> result.species,
     summary |-> <<"Detected", result.total, "organisms across",
                   Len(result.species), "species.">>,
     annotated_image_url |->
         IF annotate_ok THEN <<"static/results", "generated.jpg">>
         ELSE <<"static/results", "unknown.jpg">>,
     detections |-> ResponseDetections(result.boxes),
     counts |-> result.counts,
     timestamp |-> now,
     uploaded_image_url |-> <<"uploaded_images", timestamp_filename>>,
     id |-> inserted_id]

\* predict.py lines 72-195: POST /predict.  cv2_ok, pil_ok: cv2 and PIL read
\* the body as an image; save_ok: the upload can be written
\* to uploaded_images; annotate_ok: the annotated image can be written to
\* static/results (os.makedirs succeeds: config.py has made the directory);
\* db_ok: insert_detection returns.
Predict ==
    /\ op = "none"
    /\ Len(db) < MaxRows
    /\ \E file \in Uploads, pil_ok \in BOOLEAN, save_ok \in BOOLEAN :
        LET valid == ValidateImageFile(file)
            real == wrapper.type = "yolov8" /\ wrapper.model # "None"
        IN
        /\ ~valid => pil_ok /\ save_ok
        /\ \E cv2_ok \in BOOLEAN, detect_ok \in BOOLEAN :
            /\ ~(valid /\ real) => cv2_ok = pil_ok
            /\ ~(valid /\ real /\ cv2_ok) => detect_ok
            /\ \E dets \in SeqsUpTo(PredictDets, MaxPredictBoxes),
                  draw \in MockDraws, classes \in MockChoices :
                /\ ~(valid /\ real /\ cv2_ok /\ detect_ok /\ pil_ok) => dets = <<>>
                \* the mock answers: its draws are read
                /\ (valid /\ pil_ok /\ (~real \/ ~cv2_ok \/ ~detect_ok))
                   \/ (draw = "lo" /\ classes = <<"diatom">>)
                /\ \E annotate_ok \in BOOLEAN, db_ok \in BOOLEAN :
                    LET annotated_filename == "generated.jpg"
                        Rec(r) == [timestamp |-> clock,
                                   image_path |-> <<"static/results", annotated_filename>>,
                                   counts |-> r.result.counts,
                                   total |-> r.result.total,
                                   dominant |-> r.result.dominant,
                                   quality |-> r.result.quality,
                                   confidence |-> r.result.confidence]
                        Recorded(r, row) ==
                            /\ resp' = PredictResponse(r.result,
                                           IF save_ok THEN "timestamped.jpg" ELSE "unknown.jpg",
                                           annotate_ok, IF db_ok THEN row.id ELSE NoId, clock)
                            /\ effects' = (IF save_ok THEN <<<<"write uploaded_images", 0>>>> ELSE <<>>)
                                          \o r.effects
                                          \o (IF annotate_ok
                                              THEN <<<<"write static/results", 0>>>> ELSE <<>>)
                                          \o (IF db_ok THEN <<<<"insert detections", row.id>>>> ELSE <<>>)
                            /\ db' = IF db_ok THEN Append(db, row) ELSE db
                        Handled(r) ==
                            /\ ~(valid /\ r.kind = "return") => annotate_ok /\ db_ok
                            /\ IF ~valid THEN
                                   /\ resp' = PredictError(400,
                                         "Invalid file. Please upload a JPG or PNG image under 10 MB.")
                                   /\ effects' = <<>>
                                   /\ UNCHANGED db
                               ELSE IF r.kind = "raise" THEN
                                   /\ resp' = PredictError(500,
                                         "Model failed to process image. Try a clearer image.")
                                   /\ effects' = (IF save_ok THEN <<<<"write uploaded_images", 0>>>>
                                                  ELSE <<>>)
                                                 \o r.effects
                                   /\ UNCHANGED db
                               ELSE Recorded(r, InsertedRow(db, Rec(r)))
                    IN
                    /\ (~save_ok \/ ~annotate_ok) => db_ok
                    /\ ~save_ok => annotate_ok
                    /\ op' = "predict"
                    /\ req' = [file |-> file, cv2_ok |-> cv2_ok, pil_ok |-> pil_ok,
                               save_ok |-> save_ok,
                               detect_ok |-> detect_ok, dets |-> dets, draw |-> draw,
                               classes |-> classes, annotate_ok |-> annotate_ok, db_ok |-> db_ok,
                               model_loaded |-> real]
                    /\ Handled(RunInferenceOnBytes(wrapper, cv2_ok, pil_ok, detect_ok, dets,
                                                   ImgW, ImgH, draw, classes))
    /\ UNCHANGED <<models, snapshots_store, uploading, saving, clock, history_json>>

(***************************************************************************)
(* ai_analyzer.py                                                          *)
(***************************************************************************)
\* lines 489-495 and 74-101: get_ai_analyzer() builds the singleton once
GetAiAnalyzer ==
    /\ ai_model = "unset"
    /\ op = "none"
    /\ \E yolo_available \in BOOLEAN, file_ok \in BOOLEAN, load_ok \in BOOLEAN :
        /\ ~(yolo_available /\ file_ok) => load_ok
        /\ ~yolo_available => file_ok
        /\ ai_model' = IF yolo_available /\ file_ok /\ load_ok THEN "YOLO" ELSE "None"
        /\ op' = "get_ai_analyzer"
        /\ req' = [yolo_available |-> yolo_available, file_ok |-> file_ok,
                   load_ok |-> load_ok]
        /\ effects' = IF yolo_available /\ file_ok THEN <<<<"load", 0>>>> ELSE <<>>
        /\ resp' = [kind |-> "return"]
    /\ UNCHANGED <<MODEL, wrapper, yolo, detection_model, classification_model,
                   snapshots_store, uploading, saving, clock, db, history_json>>

\* 0.k * n as the float product of the double nearest to 0.k with n, in
\* tenths of a pixel cut off below: 0.7 * 90 is 62.99999999999999, here 629
MockCoord(k, n) == FloorScaled(FlMulInt(FlDiv(k, 10), n), 10)

\* lines 110-112: the corners 0.k * w, 0.k * h, ... of one box, ks the tenths
RECURSIVE MockCorners(_, _, _)
MockCorners(ks, w, h) ==
    IF ks = <<>> THEN <<>>
    ELSE <<MockCoord(ks[1], IF Len(ks) % 2 = 0 THEN w ELSE h)>>
         \o MockCorners(Tail(ks), w, h)

\* lines 103-115: _mock_inference, coordinates in tenths of a pixel
MockInference(w, h) ==
    <<[xyxy |-> MockCorners(<<1, 1, 3, 3>>, w, h), cls |-> 0, conf |-> 90000],
      [xyxy |-> MockCorners(<<5, 2, 7, 4>>, w, h), cls |-> 1, conf |-> 85000],
      [xyxy |-> MockCorners(<<2, 6, 4, 8>>, w, h), cls |-> 2, conf |-> 88000]>>

\* the detector output behind run_detection, coordinates in tenths of a pixel
DetectionDets ==
    {[xyxy |-> <<5, 5, 10 * ImgW - 5, 10 * ImgH - 5>>, cls |-> c, conf |-> 87654] :
        c \in {0, 3}}

\* lines 117-153: run_detection
RunDetectionResult(model, detect_ok, dets, w, h) ==
    IF model = "None" THEN
        [kind |-> "return", boxes |-> MockInference(w, h),
         effects |-> <<<<"mock boxes", 0>>>>]
    ELSE IF ~detect_ok THEN
        [kind |-> "return", boxes |-> MockInference(w, h),
         effects |-> <<<<"detect", 0>>, <<"mock boxes", 0>>>>]
    ELSE [kind |-> "return", boxes |-> dets, effects |-> <<<<"detect", 0>>>>]

RunDetection ==
    /\ ai_model # "unset"
    /\ op = "none"
    /\ \E detect_ok \in BOOLEAN, dets \in SeqsUpTo(DetectionDets, MaxPredictBoxes) :
        /\ ai_model = "None" => detect_ok
        /\ ~(ai_model = "YOLO" /\ detect_ok) => dets = <<>>
        /\ LET Answer(r) ==
                   /\ op' = "run_detection"
                   /\ req' = [detect_ok |-> detect_ok, dets |-> dets,
                              model_loaded |-> ai_model = "YOLO"]
                   /\ effects' = r.effects
                   /\ resp' = [x \in DOMAIN r \ {"effects"} |-> r[x]]
           IN  Answer(RunDetectionResult(ai_model, detect_ok, dets, ImgW, ImgH))
    /\ UNCHANGED <<models, snapshots_store, uploading, saving, clock, db, history_json>>

(***************************************************************************)
(* SpecInference: POST /predict over services/inference_engine.py, and     *)
(* AquaSafeAI.run_detection                                                *)
(***************************************************************************)
NextInference ==
    ModelWrapperLoad \/ Predict \/ GetAiAnalyzer \/ RunDetection \/ Deliver

SpecInference == InitCommon /\ [][NextInference]_vars

(***************************************************************************)
(* routes/analyze_image.py                                                 *)
(***************************************************************************)
\* lines 35 and 50: {p['class']: p['count'] for p in per_class}
RECURSIVE RowCounts(_)
RowCounts(per_class) ==
    IF per_class = <<>> THEN <<>>
    ELSE <<<<per_class[1].class, per_class[1].count>>>> \o RowCounts(Tail(per_class))

\* lines 32-40: the record handed to insert_detection
AnalysisRecord(result, filename, now) ==
    [timestamp |-> now,
     image_path |-> <<"uploaded_images", filename>>,
     counts |-> RowCounts(result.per_class),
     total |-> result.total_detections,
     dominant |-> IF result.per_class = <<>> THEN "None" ELSE result.per_class[1].class,
     quality |-> result.overall_verdict,
     confidence |-> IF result.per_class = <<>> THEN 0
                    ELSE result.per_class[1].avg_confidence]

\* lines 22-26: initialize_model() is called by the handler.  The outcome is
\* the model the module holds afterwards, the exception if any, and the load.
InitializeModelOutcome(model, import_ok, file_ok, load_ok, names) ==
    IF ~import_ok THEN [ok |-> FALSE, model |-> model, error |-> "ImportError", effects |-> <<>>]
    ELSE IF ~file_ok THEN [ok |-> FALSE, model |-> model, error |-> "FileNotFoundError",
                           effects |-> <<>>]
    ELSE IF ~load_ok THEN [ok |-> FALSE, model |-> model, error |-> "Exception",
                           effects |-> <<<<"load", 0>>>>]
    ELSE [ok |-> TRUE, model |-> Yolo(names), error |-> "", effects |-> <<<<"load", 0>>>>]

\* yolo_analyzer.py lines 240-344 with the write of the annotated image
\* (lines 311-317) as a step that can raise; nothing of the call catches it
AnalyzeImageBytesWritten(model, image_ok, predict_ok, annotate_ok, raw) ==
    LET Written(r) ==
            IF r.kind = "return" /\ ~annotate_ok
            THEN [kind |-> "raise", error |-> "OSError", effects |-> <<<<"predict", 0>>>>]
            ELSE r
    IN  Written(AnalyzeImageBytesResult(model, image_ok, predict_ok, raw))

\* a handler that stores the row before it analyses the image
AnalyzeImageOutcome_RecordFirst(model, table, now, i) ==
    LET Stored(row) == IF i.db_ok THEN <<<<"insert detections", row.id>>>> ELSE <<>>
        Table2(row) == IF i.db_ok THEN Append(table, row) ELSE table
        Answer(row, init, r) ==
            IF i.empty THEN
                [resp |-> [kind |-> "return", http |-> 400,
                           detail |-> "Empty file uploaded"],
                 effects |-> <<>>, model |-> model, db |-> table]
            ELSE IF ~init.ok THEN
                [resp |-> [kind |-> "return", http |-> 500, detail |-> init.error],
                 effects |-> Stored(row) \o init.effects, model |-> init.model,
                 db |-> Table2(row)]
            ELSE IF r.kind = "raise" THEN
                [resp |-> [kind |-> "return", http |-> 500, detail |-> "Analysis failed"],
                 effects |-> Stored(row) \o init.effects \o r.effects,
                 model |-> init.model, db |-> Table2(row)]
            ELSE
                [resp |-> [kind |-> "return", http |-> 200, result |-> r.result],
                 effects |-> Stored(row) \o init.effects \o r.effects
                             \o (IF i.json_ok THEN <<<<"write latest_analysis.json", 0>>>>
                                 ELSE <<>>),
                 model |-> init.model, db |-> Table2(row)]
        Analysed(row, init) ==
            Answer(row, init,
                   AnalyzeImageBytesWritten(init.model, i.image_ok, i.predict_ok,
                                            i.annotate_ok, i.raw))
    IN  Analysed(InsertedRow(table, AnalysisRecord(Aggregate(<<>>), i.filename, now)),
                 InitializeModelOutcome(model, i.import_ok, i.file_ok, i.load_ok, i.names))

\* lines 16-72: the handler of POST /analyze-image on the input i
AnalyzeImageOutcome(model, table, now, i) ==
    LET Recorded(init, r, row) ==
            [resp |-> [kind |-> "return", http |-> 200, result |-> r.result],
             effects |-> init.effects \o r.effects
                         \o (IF i.db_ok THEN <<<<"insert detections", row.id>>>>
                             ELSE <<>>)
                         \o (IF i.json_ok THEN <<<<"write latest_analysis.json", 0>>>>
                             ELSE <<>>),
             model |-> init.model,
             db |-> IF i.db_ok THEN Append(table, row) ELSE table]
        Answer(init, r) ==
            IF i.empty THEN
                [resp |-> [kind |-> "return", http |-> 400,
                           detail |-> "Empty file uploaded"],
                 effects |-> <<>>, model |-> model, db |-> table]
            ELSE IF ~init.ok THEN
                [resp |-> [kind |-> "return", http |-> 500, detail |-> init.error],
                 effects |-> init.effects, model |-> init.model, db |-> table]
            ELSE IF r.kind = "raise" THEN
                [resp |-> [kind |-> "return", http |-> 500, detail |-> "Analysis failed"],
                 effects |-> init.effects \o r.effects, model |-> init.model,
                 db |-> table]
            ELSE Recorded(init, r,
                          InsertedRow(table, AnalysisRecord(r.result, i.filename, now)))
        Analysed(init) ==
            Answer(init,
                   AnalyzeImageBytesWritten(init.model, i.image_ok, i.predict_ok,
                                            i.annotate_ok, i.raw))
    IN  Analysed(InitializeModelOutcome(model, i.import_ok, i.file_ok, i.load_ok, i.names))

\* the detector output behind POST /analyze-image
RouteDets == {d \in ReadableDets : d.cls \in {0, 2}}

\* the requests sent to POST /analyze-image; what a step never reaches is
\* given one value
AnalyzeImageInputs ==
    {i \in [filename : {"drop.jpg"}, empty : BOOLEAN, import_ok : BOOLEAN,
            file_ok : BOOLEAN, load_ok : BOOLEAN, names : DetNameChoices,
            image_ok : BOOLEAN,
            predict_ok : BOOLEAN, annotate_ok : BOOLEAN,
            raw : SeqsUpTo(RouteDets, MaxPredictBoxes),
            db_ok : BOOLEAN, json_ok : BOOLEAN] :
        /\ i.empty => i.import_ok
        /\ ~i.import_ok => i.file_ok
        /\ ~i.file_ok => i.load_ok
        /\ ~(i.import_ok /\ i.file_ok /\ i.load_ok) => i.image_ok /\ i.names = ModelNames
        /\ ~i.image_ok => i.predict_ok
        /\ ~i.predict_ok => i.annotate_ok
        /\ (i.empty \/ ~(i.import_ok /\ i.file_ok /\ i.load_ok /\ i.image_ok /\ i.predict_ok))
              => i.raw = <<>>
        /\ (i.empty \/ ~(i.import_ok /\ i.file_ok /\ i.load_ok /\ i.image_ok /\ i.predict_ok
                          /\ i.annotate_ok))
              => (i.db_ok /\ i.json_ok)}

AnalyzeImageRoute ==
    /\ op = "none"
    /\ Len(db) < MaxRows
    /\ \E i \in AnalyzeImageInputs :
        LET Handled(o) ==
                /\ op' = "analyze_image"
                /\ req' = i @@ ("model_loaded" :> (MODEL.kind # "None"))
                /\ resp' = o.resp
                /\ effects' = o.effects
                /\ MODEL' = o.model
                /\ db' = o.db
        IN  Handled(AnalyzeImageOutcome(MODEL, db, clock, i))
    /\ UNCHANGED <<wrapper, yolo, ai_model, detection_model, classification_model,
                   snapshots_store, uploading, saving, clock, history_json>>

(***************************************************************************)
(* SpecRecord: the two handlers that record an analysis, POST /predict and *)
(* POST /analyze-image                                                     *)
(***************************************************************************)
NextRecord ==
    ModelWrapperLoad \/ Predict \/ AnalyzeImageRoute \/ Deliver

SpecRecord == InitCommon /\ [][NextRecord]_vars

(***************************************************************************)
(* routes/status_route.py                                                  *)
(***************************************************************************)
\* lines 8-15: GET /status reads the type of services.model_loader.MODEL
Status ==
    /\ yolo.kind # "unset"
    /\ op = "none"
    /\ op' = "status"
    /\ req' = Idle
    /\ resp' = [kind |-> "return", http |-> 200, status |-> "online",
                model_type |-> wrapper.type, timestamp |-> clock]
    /\ effects' = <<>>
    /\ UNCHANGED <<models, snapshots_store, uploading, saving, clock, db, history_json>>

(***************************************************************************)
(* SpecStatus: the loaders of the four detectors of the process, and       *)
(* GET /status                                                             *)
(***************************************************************************)
NextStatus ==
    StartupEvent \/ LoadModels \/ InitializeModel \/ ModelWrapperLoad \/ Status \/ Deliver

SpecStatus == InitCommon /\ [][NextStatus]_vars

(***************************************************************************)
(* database/db.py and routes/history_route.py                              *)
(***************************************************************************)
\* the values of datetime.utcnow() the callers of insert_detection hand over;
\* the wall clock may repeat a value and may step back
HistoryTimes == {1, 2, 3}

\* db.py lines 30-41: insert_detection(record), called on its own
InsertDetection ==
    /\ op = "none"
    /\ Len(db) < MaxHistory
    /\ \E t \in HistoryTimes :
        LET rec == [timestamp |-> t, image_path |-> <<"static/results", "generated.jpg">>,
                    counts |-> <<>>, total |-> 0, dominant |-> "None",
                    quality |-> "Good", confidence |-> 0]
            row == InsertedRow(db, rec)
        IN  /\ op' = "insert_detection"
            /\ req' = [record |-> rec]
            /\ resp' = [kind |-> "return", id |-> row.id]
            /\ effects' = <<<<"insert detections", row.id>>>>
            /\ db' = Append(db, row)
    /\ UNCHANGED <<models, snapshots_store, uploading, saving, clock, history_json>>

\* db.py line 45, order_by(timestamp.desc()): the orders in which the rows
\* may come back; SQL leaves the order of rows of equal timestamp open
OrderByTimestampDesc(table) ==
    LET n == Len(table)
        Sorted == {p \in [1..n -> 1..n] :
                      /\ \A i, j \in 1..n : i # j => p[i] # p[j]
                      /\ \A k \in 1..(n - 1) :
                            table[p[k]].timestamp >= table[p[k + 1]].timestamp}
    IN  {[k \in 1..n |-> table[p[k]]] : p \in Sorted}

\* a LIMIT that keeps the last rows of the ordered result
TakeLimit_Last(rows, limit) ==
    SubSeq(rows, Max(1, Len(rows) - limit + 1), Len(rows))

\* db.py line 45, .limit(limit)
TakeLimit(rows, limit) == SubSeq(rows, 1, Min(limit, Len(rows)))

\* db.py lines 51-62: the URL of a stored path.  A relative path is served
\* under the address of the backend; an absolute one, which begins with the
\* root "/" and goes on with the folders above static/, gets no URL.
ImageUrl(image_path) ==
    IF image_path[1] = "/" THEN <<>> ELSE <<"http://127.0.0.1:8000">> \o image_path

\* db.py lines 49-77: the dict made of each row; isoformat() and json.loads
\* convert the timestamp and the counts
RECURSIVE HistoryItems(_)
HistoryItems(rows) ==
    IF rows = <<>> THEN <<>>
    ELSE <<[id |-> rows[1].id,
            timestamp |-> [iso |-> rows[1].timestamp],
            created_at |-> [iso |-> rows[1].timestamp],
            image_path |-> rows[1].image_path,
            image_url |-> ImageUrl(rows[1].image_path),
            counts |-> rows[1].counts_json.json,
            total |-> rows[1].total,
            dominant |-> rows[1].dominant,
            quality |-> rows[1].quality,
            confidence |-> rows[1].confidence,
            summary |-> <<"Detected", rows[1].total, "organisms">>,
            preds |-> <<>>]>>
         \o HistoryItems(Tail(rows))

\* db.py lines 43-78: the lists get_history(limit) may return
GetHistory(table, limit) ==
    {HistoryItems(TakeLimit(rows, limit)) : rows \in OrderByTimestampDesc(table)}

\* history_route.py line 13: limit: int = Query(100, ge=1, le=1000)
HistoryLimit(q) ==
    IF ~q.given THEN [ok |-> TRUE, limit |-> 100]
    ELSE IF q.value >= 1 /\ q.value <= 1000 THEN [ok |-> TRUE, limit |-> q.value]
    ELSE [ok |-> FALSE, limit |-> 0]

\* the query strings sent to GET /history
HistoryQueries ==
    {[given |-> FALSE, value |-> 0]}
    \cup {[given |-> TRUE, value |-> v] : v \in {0, 1, 2, 1000, 1001}}

\* history_route.py lines 12-15: GET /history
History ==
    /\ op = "none"
    /\ \E q \in HistoryQueries :
        LET l == HistoryLimit(q)
        IN  /\ op' = "history"
            /\ req' = q
            /\ IF ~l.ok
               THEN /\ resp' = [kind |-> "return", http |-> 422]
                    /\ effects' = <<>>
               ELSE /\ \E data \in GetHistory(db, l.limit) :
                         resp' = [kind |-> "return", http |-> 200, history |-> data]
                    /\ effects' = <<<<"get_history", l.limit>>>>
    /\ UNCHANGED <<models, snapshots_store, uploading, saving, clock, db, history_json>>

\* Python's None in a place where a str may stand as well
PyNone == "<None>"

\* history_route.py line 18, analysis_json: the documents clients send.
\* "invalid" is a text json.loads cannot read and "list" a JSON list; an
\* object is given by its keys.  Confidences are in units of 1e-5.
NotJson == [kind |-> "invalid"]
JsonList == [kind |-> "list"]
PoorAnalysis ==
    [kind |-> "object",
     analysis |-> [counts |-> <<<<"algae", 7>>>>, total |-> 7, dominant |-> "algae",
                   quality |-> "Poor", confidence |-> 50000]]
UnratedAnalysis ==
    [kind |-> "object",
     analysis |-> [total |-> 0, dominant |-> "None", confidence |-> 0]]
SaveDocuments == {NotJson, JsonList, PoorAnalysis, UnratedAnalysis}

\* config.py lines 5-7: RESULTS_DIR is an absolute path
RESULTS_DIR == <<"/", "backend/static/results">>

\* history_route.py lines 37-45: the record made of the client's analysis
SavedRecord(analysis, now) ==
    [timestamp |-> now,
     image_path |-> Append(RESULTS_DIR, "generated.jpg"),
     counts |-> DictGet(analysis, "counts", <<>>),
     total |-> DictGet(analysis, "total", 0),
     dominant |-> DictGet(analysis, "dominant", PyNone),
     quality |-> DictGet(analysis, "quality", PyNone),
     confidence |-> DictGet(analysis, "confidence", PyNone)]

\* the answer of line 56: status 500 with str(e)
SaveError(text) ==
    [kind |-> "return", http |-> 500, body |-> [status |-> "error", message |-> text]]

\* history_route.py lines 17-29: POST /history/save as far as
\* `await image.read()`.  A text json.loads cannot read is answered at once
\* (line 56); a handler that has its document waits for the body, and other
\* handlers run meanwhile.
SaveToHistoryRouteAt(Documents) ==
    /\ op = "none"
    /\ \E document \in Documents :
        IF document = NotJson THEN
            /\ op' = "history_save"
            /\ req' = [analysis_json |-> document, write_ok |-> TRUE, db_ok |-> TRUE]
            /\ resp' = SaveError("Expecting value: line 1 column 1 (char 0)")
            /\ effects' = <<>>
            /\ UNCHANGED saving
        ELSE
            /\ Len(saving) < MaxSaving
            /\ saving' = Append(saving, document)
            /\ UNCHANGED <<op, req, effects, resp>>
    /\ UNCHANGED <<models, snapshots_store, uploading, clock, db, history_json>>

\* history_route.py lines 29-56: one of the waiting handlers has its body
\* and goes on to the end.  write_ok: the image can be written to
\* RESULTS_DIR; db_ok: insert_detection returns; now: datetime.utcnow() at
\* line 38.  Every exception is answered by line 56.
SaveToHistoryRouteStoreAt(Times) ==
    /\ op = "none"
    /\ Len(db) < MaxHistory
    /\ \E k \in 1..Len(saving), write_ok \in BOOLEAN, db_ok \in BOOLEAN :
        LET document == saving[k]
        IN
        /\ ~(write_ok /\ document.kind = "object") => db_ok
        /\ saving' = SubSeq(saving, 1, k - 1) \o SubSeq(saving, k + 1, Len(saving))
        /\ op' = "history_save"
        /\ req' = [analysis_json |-> document, write_ok |-> write_ok, db_ok |-> db_ok]
        /\ IF ~write_ok THEN
               /\ resp' = SaveError("OSError")
               /\ effects' = <<>>
               /\ UNCHANGED db
           ELSE IF document.kind = "list" THEN
               /\ resp' = SaveError("'list' object has no attribute 'get'")
               /\ effects' = <<<<"write static/results", 0>>>>
               /\ UNCHANGED db
           ELSE IF ~db_ok THEN
               /\ resp' = SaveError("OperationalError")
               /\ effects' = <<<<"write static/results", 0>>>>
               /\ UNCHANGED db
           ELSE \E now \in Times :
               LET row == InsertedRow(db, SavedRecord(document.analysis, now))
               IN  /\ resp' = [kind |-> "return", http |-> 200,
                               body |-> [status |-> "saved", id |-> row.id,
                                         message |-> "Analysis saved to history"]]
                   /\ effects' = <<<<"write static/results", 0>>,
                                   <<"insert detections", row.id>>>>
                   /\ db' = Append(db, row)
    /\ UNCHANGED <<models, snapshots_store, uploading, clock, history_json>>

SaveToHistoryRoute == SaveToHistoryRouteAt({NotJson, PoorAnalysis})

SaveToHistoryRouteStore == SaveToHistoryRouteStoreAt(HistoryTimes)

(***************************************************************************)
(* SpecHistory: rows inserted into the detections table, and GET /history  *)
(***************************************************************************)
NextHistory ==
    InsertDetection \/ SaveToHistoryRoute \/ SaveToHistoryRouteStore \/ History
    \/ Deliver

SpecHistory == InitCommon /\ [][NextHistory]_vars

(***************************************************************************)
(* SpecTies: analyze_image_bytes and analyze_snapshot on images whose      *)
(* detections differ in confidence, so that classes tie in count but not   *)
(* in average confidence                                                   *)
(***************************************************************************)
TieConfs == {60000, 90000}

TieRawDets ==
    {[ok |-> TRUE, xyxy |-> <<1, 1, 7, 5>>, conf |-> c, cls |-> k] :
        c \in TieConfs, k \in {0, 1, 2}}

TieOutputs == SeqsUpTo(TieRawDets, MaxTieBoxes)

TieSnapDets ==
    {[xyxy |-> <<2, 1, 2 * ImgW - 2, 2 * ImgH - 1>>, conf |-> c, cls |-> k, out |-> o] :
        c \in TieConfs, k \in {0, 1},
        o \in {NoOutcome, [kind |-> "raise", idx |-> 0, conf |-> 0]}}

TieSnapOutputs == SeqsUpTo(TieSnapDets, MaxTieBoxes)

AnalyzeTies == AnalyzeImageBytes(TieOutputs)

AnalyzeSnapshotTies == AnalyzeSnapshotOn(TieSnapOutputs)

\* the classification model of these images is not asked or raises: its
\* names are not read
LoadModelsTies == LoadModelsAt(DetNameChoices, {ClsNames})

UploadSnapshotTies == UploadSnapshotAt({"drop.jpg"}, SnapTimes)

NextTies ==
    InitializeModel \/ AnalyzeTies \/ LoadModelsTies \/ UploadSnapshotTies
    \/ UploadSnapshotStore \/ AnalyzeSnapshotTies \/ Deliver

SpecTies == InitCommon /\ [][NextTies]_vars

(***************************************************************************)
(* The aggregation of analyze_image_bytes with its dicts written out       *)
(***************************************************************************)
\* yolo_analyzer.py lines 279-283: one box added to counts and conf_sums,
\* kept together as entries <<cname, count, confs>> in insertion order,
\* confs the confidences that conf_sums[cname] is the float sum of
RECURSIVE TallyBox(_, _)
TallyBox(acc, b) ==
    IF acc = <<>> THEN <<<<b.class, 1, <<b.confidence>>>>>>
    ELSE IF acc[1][1] = b.class
         THEN <<<<b.class, acc[1][2] + 1, Append(acc[1][3], b.confidence)>>>> \o Tail(acc)
         ELSE <<acc[1]>> \o TallyBox(Tail(acc), b)

\* lines 279-283: the loop over the boxes
RECURSIVE Tally(_, _)
Tally(acc, boxes) ==
    IF boxes = <<>> THEN acc
    ELSE Tally(TallyBox(acc, boxes[1]), Tail(boxes))

\* dicts that outlive the call: the run goes on from what the last one left
AggregationStart_Kept(left) == left

\* lines 277-278: counts = {} and conf_sums = {} are made anew in every call,
\* whatever an earlier call left behind
AggregationStart(left) == <<>>

\* lines 285-297: one row per entry of the dicts
RECURSIVE TallyRows(_, _)
TallyRows(acc, total) ==
    IF acc = <<>> THEN <<>>
    ELSE <<PerClassRow(acc[1][1], acc[1][2], acc[1][3], total)>>
         \o TallyRows(Tail(acc), total)

\* lines 275-309: one run of the aggregation; left is what its dicts hold at
\* the end
AggregateRun(left, boxes) ==
    LET Result(acc, per_class) ==
            [result |-> [total_detections |-> Len(boxes),
                         per_class |-> per_class,
                         overall_verdict |-> OverallVerdict(per_class)],
             left |-> acc]
        Rows(acc) == Result(acc, SortPerClass(TallyRows(acc, Len(boxes))))
    IN  Rows(Tally(AggregationStart(left), boxes))

\* the detection lists the aggregation is run on
AggregationInputs ==
    {ExtractBoxes(raw, ModelNames) : raw \in SeqsUpTo(TieRawDets, MaxAggBoxes)}

\* the aggregation run on a detection list
AggregateOnce ==
    /\ op = "none"
    /\ \E boxes \in AggregationInputs :
        LET r == AggregateRun(<<>>, boxes)
        IN  /\ op' = "aggregate"
            /\ req' = [boxes |-> boxes]
            /\ resp' = [kind |-> "return", first |-> r.result, left |-> r.left]
            /\ effects' = <<<<"aggregate", 1>>>>
    /\ UNCHANGED <<models, snapshots_store, uploading, saving, clock, db, history_json>>

\* the aggregation run a second time on the same detection list
AggregateAgain ==
    /\ op = "aggregate"
    /\ LET r == AggregateRun(resp.left, req.boxes)
       IN  /\ op' = "aggregate again"
           /\ req' = req
           /\ resp' = [kind |-> "return", first |-> resp.first, second |-> r.result,
                       left |-> r.left]
           /\ effects' = effects \o <<<<"aggregate", 2>>>>
    /\ UNCHANGED <<models, snapshots_store, uploading, saving, clock, db, history_json>>

(***************************************************************************)
(* SpecTwice: the aggregation run twice on one detection list              *)
(***************************************************************************)
NextTwice == AggregateOnce \/ AggregateAgain \/ Deliver

SpecTwice == InitCommon /\ [][NextTwice]_vars

(***************************************************************************)
(* Images and the drawing on them: YoloPipeline.run, analyze_image_bytes   *)
(* and AquaSafeAI.annotate_image                                           *)
(*                                                                         *)
(* An image buffer is the set of marks drawn on it; the heap is the        *)
(* sequence of the buffers of one call, a reference an index into it.      *)
(***************************************************************************)
\* `annotated = img` in place of `annotated = img.copy()`: a second name for
\* the same buffer
ImageCopy_Alias(heap, ref) == [heap |-> heap, ref |-> ref]

\* yolo_pipeline.py line 87, yolo_analyzer.py line 312, ai_analyzer.py lines
\* 167 and 169: .copy() makes a new buffer with the content of the old one
ImageCopy(heap, ref) == [heap |-> Append(heap, heap[ref]), ref |-> Len(heap) + 1]

\* cv2.rectangle / cv2.putText / ImageDraw: the buffer behind ref gets a mark
DrawOn(heap, ref, mark) == [heap EXCEPT ![ref] = @ \cup {mark}]

\* yolo_pipeline.py lines 111-173: the crop of line 122 is cut from img, the
\* drawing of lines 165-167 goes to annotated
RECURSIVE PipelineDrawLoop(_, _, _, _, _, _, _)
PipelineDrawLoop(heap, img, annotated, boxes, i, w, h) ==
    IF i > Len(boxes) THEN [heap |-> heap, crops |-> <<>>]
    ELSE LET b == ClampedBox(boxes[i].xyxy, w, h)
         IN  IF Degenerate(b) THEN PipelineDrawLoop(heap, img, annotated, boxes, i + 1, w, h)
             ELSE LET crop == [box |-> i, bbox |-> b, cut_from |-> heap[img]]
                      rest == PipelineDrawLoop(DrawOn(heap, annotated, b), img, annotated,
                                               boxes, i + 1, w, h)
                  IN  [heap |-> rest.heap, crops |-> <<crop>> \o rest.crops]

\* yolo_pipeline.py lines 79-178: run(image_array=image), as far as the image
\* buffers go
PipelineRunImage(image, boxes, w, h) ==
    LET c == ImageCopy(<<image>>, 1)
        r == PipelineDrawLoop(c.heap, 1, c.ref, boxes, 1, w, h)
    IN  [input_after |-> r.heap[1], annotated |-> r.heap[c.ref], crops |-> r.crops]

\* int() of a coordinate given in tenths of a pixel
TruncTenths(v) == IF v >= 0 THEN v \div 10 ELSE -((-v) \div 10)

\* ai_analyzer.py lines 176-197 and yolo_analyzer.py lines 111-118: every box
\* is drawn on the buffer behind ref
RECURSIVE DrawAll(_, _, _)
DrawAll(heap, ref, marks) ==
    IF marks = <<>> THEN heap
    ELSE DrawAll(DrawOn(heap, ref, marks[1]), ref, Tail(marks))

\* ai_analyzer.py lines 176-178: the integer corners of the boxes
RECURSIVE IntCorners(_)
IntCorners(boxes) ==
    IF boxes = <<>> THEN <<>>
    ELSE <<[k \in 1..4 |-> TruncTenths(boxes[1].xyxy[k])]>> \o IntCorners(Tail(boxes))

\* ai_analyzer.py lines 155-199: annotate_image(image_array, detections)
AnnotateImageResult(image, boxes, cv2_available) ==
    LET c == ImageCopy(<<image>>, 1)
        heap == IF cv2_available THEN DrawAll(c.heap, c.ref, IntCorners(boxes)) ELSE c.heap
    IN  [input_after |-> heap[1], annotated |-> heap[c.ref]]

\* yolo_analyzer.py lines 111-112: the 'box' of every extracted box
RECURSIVE BoxCorners(_)
BoxCorners(boxes) ==
    IF boxes = <<>> THEN <<>>
    ELSE <<boxes[1].box>> \o BoxCorners(Tail(boxes))

\* yolo_analyzer.py line 312 with lines 104-122:
\* _annotate_image_pil(pil_img.copy(), boxes)
AnnotatePilResult(pil_img, boxes) ==
    LET c == ImageCopy(<<pil_img>>, 1)
        heap == DrawAll(c.heap, c.ref, BoxCorners(boxes))
    IN  [input_after |-> heap[1], annotated |-> heap[c.ref]]

\* the images handed in: a clean one, and one that carries a mark already
Images == {{}, {<<0, 0, 1, 1>>}}

\* YoloPipeline.run called on an image array
PipelineRunOnImage ==
    /\ yolo.kind = "YoloPipeline"
    /\ op = "none"
    /\ \E image \in Images, boxes \in SeqsUpTo(PipelineBoxes, MaxDrawBoxes) :
        LET r == PipelineRunImage(image, boxes, ImgW, ImgH)
        IN  /\ op' = "YoloPipeline.run"
            /\ req' = [image |-> image, boxes |-> boxes, w |-> ImgW, h |-> ImgH]
            /\ resp' = [kind |-> "return", input_after |-> r.input_after,
                        annotated |-> r.annotated, crops |-> r.crops]
            /\ effects' = <<<<"detect", 0>>>>
    /\ UNCHANGED <<models, snapshots_store, uploading, saving, clock, db, history_json>>

\* AquaSafeAI.annotate_image called on an image array and detections
AnnotateImage ==
    /\ ai_model # "unset"
    /\ op = "none"
    /\ \E image \in Images, cv2_available \in BOOLEAN,
          boxes \in SeqsUpTo(DetectionDets, MaxDrawBoxes) \cup {MockInference(ImgW, ImgH)} :
        LET r == AnnotateImageResult(image, boxes, cv2_available)
        IN  /\ op' = "annotate_image"
            /\ req' = [image |-> image, boxes |-> boxes, cv2_available |-> cv2_available]
            /\ resp' = [kind |-> "return", input_after |-> r.input_after,
                        annotated |-> r.annotated]
            /\ effects' = <<>>
    /\ UNCHANGED <<models, snapshots_store, uploading, saving, clock, db, history_json>>

\* the annotation step of analyze_image_bytes on the decoded image
AnnotateAnalyzed ==
    /\ MODEL.kind = "YOLO"
    /\ op = "none"
    /\ \E image \in Images, raw \in SeqsUpTo(TieRawDets, MaxDrawBoxes) :
        LET r == AnnotatePilResult(image, ExtractBoxes(raw, MODEL.names))
        IN  /\ op' = "_annotate_image_pil"
            /\ req' = [image |-> image, boxes |-> ExtractBoxes(raw, MODEL.names)]
            /\ resp' = [kind |-> "return", input_after |-> r.input_after,
                        annotated |-> r.annotated]
            /\ effects' = <<<<"predict", 0>>>>
    /\ UNCHANGED <<models, snapshots_store, uploading, saving, clock, db, history_json>>

(***************************************************************************)
(* SpecImage: the three annotators, each after the loader of its model     *)
(***************************************************************************)
NextImage ==
    StartupEvent \/ GetAiAnalyzer \/ InitializeModel
    \/ PipelineRunOnImage \/ AnnotateImage \/ AnnotateAnalyzed \/ Deliver

SpecImage == InitCommon /\ [][NextImage]_vars

(***************************************************************************)
(* What the claims speak about, read off the request and the response      *)
(***************************************************************************)
AnalyzeReturned == op = "analyze_image_bytes" /\ resp.kind = "return"

\* the class labels of the detections the detector emitted with readable
\* coordinates, in the order it emitted them, by the names of the model
RECURSIVE LabelsOf(_)
LabelsOf(raw) ==
    IF raw = <<>> THEN <<>>
    ELSE (IF raw[1].ok
          THEN <<DictGet(MODEL.names, raw[1].cls, FmtClass(raw[1].cls))>>
          ELSE <<>>) \o LabelsOf(Tail(raw))

Occurrences(labels, c) == Cardinality({i \in 1..Len(labels) : labels[i] = c})

TierOf(c) == IF c \in DOMAIN DEFAULT_SAFETY_MAP THEN DEFAULT_SAFETY_MAP[c] ELSE "Safe"

PresentOfTier(labels, tier) == {c \in Range(labels) : TierOf(c) = tier}

PercentageSum(per_class) == SumSeq([i \in 1..Len(per_class) |-> per_class[i].percentage])

\* C1: the verdict of analyze_image_bytes is Unsafe exactly when more than one
\* Unsafe-tier class is present or one Unsafe-tier class is more than 20% of
\* all detections; otherwise Caution exactly when a Caution-tier class is
\* present; otherwise Safe.
C1_VerdictRule ==
    AnalyzeReturned =>
        LET labels == LabelsOf(req.raw)
            unsafe == PresentOfTier(labels, "Unsafe")
            dominant == \E c \in unsafe : 5 * Occurrences(labels, c) > Len(labels)
        IN  resp.result.overall_verdict =
                IF Cardinality(unsafe) > 1 \/ dominant THEN "Unsafe"
                ELSE IF PresentOfTier(labels, "Caution") # {} THEN "Caution"
                ELSE "Safe"

\* an Unsafe-tier class is exactly 20% of the detections and the verdict is Caution
C1_Witness ==
    /\ AnalyzeReturned
    /\ resp.result.overall_verdict = "Caution"
    /\ \E i \in 1..Len(resp.result.per_class) :
          /\ resp.result.per_class[i].safety = "Unsafe"
          /\ resp.result.per_class[i].percentage = 200

\* C2 as stated: the percentages sum to a value in [99.9, 100.1] when
\* total > 0, and none is non-zero when total = 0.
C2_SumWithinOneTenth ==
    AnalyzeReturned =>
        LET r == resp.result
        IN  /\ r.total_detections > 0 =>
                  PercentageSum(r.per_class) \in 999..1001
            /\ r.total_detections = 0 =>
                  \A i \in 1..Len(r.per_class) : r.per_class[i].percentage = 0

\* C2 amended: each percentage is rounded on its own, so the sum is within
\* 0.05 per class row of 100 when total > 0; none is non-zero when total = 0.
C2_SumWithinHalfTenthPerClass ==
    AnalyzeReturned =>
        LET r == resp.result
            s == PercentageSum(r.per_class)
            off == IF s >= 1000 THEN s - 1000 ELSE 1000 - s
        IN  /\ r.total_detections > 0 => 2 * off <= Len(r.per_class)
            /\ r.total_detections = 0 =>
                  \A i \in 1..Len(r.per_class) : r.per_class[i].percentage = 0

\* six classes of one detection each: 6 * 16.7 = 100.2
C2_Witness ==
    /\ AnalyzeReturned
    /\ Len(resp.result.per_class) = 6
    /\ PercentageSum(resp.result.per_class) = 1002

\* C3: each per_class row's count is the number of detections with that class
\* label and is at least 1, no label has two rows, and the counts sum to
\* total_detections, the number of boxes extracted from the detector output.
C3_CountsPartitionTotal ==
    AnalyzeReturned =>
        LET r == resp.result
            labels == LabelsOf(req.raw)
            rows == r.per_class
        IN  /\ \A i \in 1..Len(rows) :
                  /\ rows[i].count = Occurrences(labels, rows[i].class)
                  /\ rows[i].count >= 1
            /\ \A i, j \in 1..Len(rows) : rows[i].class = rows[j].class => i = j
            /\ SumSeq([i \in 1..Len(rows) |-> rows[i].count]) = r.total_detections
            /\ r.total_detections = Len(labels)

\* two classes, one of them with several detections, and a detection the
\* extraction skipped
C3_Witness ==
    /\ AnalyzeReturned
    /\ Len(resp.result.per_class) >= 2
    /\ \E i \in 1..Len(resp.result.per_class) : resp.result.per_class[i].count >= 2
    /\ \E i \in 1..Len(req.raw) : ~req.raw[i].ok

(***************************************************************************)
(* Analyses without detections                                             *)
(***************************************************************************)
SnapshotReturned == op = "analyze_snapshot" /\ resp.kind = "return"

\* C4: when no box is extracted from the detector output, analyze_image_bytes
\* returns total_detections 0, an empty per_class and verdict Safe, and
\* analyze_snapshot returns count 0, an empty per_class_stats and safe true.
C4_NoDetections ==
    /\ (AnalyzeReturned /\ LabelsOf(req.raw) = <<>>) =>
           /\ resp.result.total_detections = 0
           /\ resp.result.per_class = <<>>
           /\ resp.result.overall_verdict = "Safe"
    /\ (SnapshotReturned /\ ParsedBoxes(req.boxes, req.parse) = <<>>) =>
           /\ resp.body.count = 0
           /\ resp.body.per_class_stats = <<>>
           /\ resp.body.boxes = <<>>
           /\ resp.body.safe = TRUE

\* analyze_image_bytes has just answered for an image without detections, and
\* the store keeps a snapshot whose analysis ran the detector and found none
C4_Witness ==
    /\ AnalyzeReturned
    /\ req.raw = <<>>
    /\ resp.result.total_detections = 0
    /\ \E id \in DOMAIN snapshots_store :
          /\ snapshots_store[id].analyzed
          /\ snapshots_store[id].count = 0
          /\ snapshots_store[id].species = "None Detected"
          /\ snapshots_store[id].safe

(***************************************************************************)
(* YoloPipeline.run, as seen through POST /ai/analyze                      *)
(***************************************************************************)
PipelineReturned == op = "ai_analyze" /\ resp.status = "OK"

\* run read every box of the detector's result off its arrays (lines 93-98)
PipelineReadAll == PipelineReturned /\ req.read = ReadAll(req.boxes)

\* the crop of box i: the box in whole pixels, each coordinate moved into
\* the index range of the image, and its area
CropSide(lo, hi, n) ==
    LET l == IF IntOf(lo) < 0 THEN 0 ELSE IF IntOf(lo) > n - 1 THEN n - 1 ELSE IntOf(lo)
        u == IF IntOf(hi) < 0 THEN 0 ELSE IF IntOf(hi) > n - 1 THEN n - 1 ELSE IntOf(hi)
    IN  <<l, u>>

CropArea(box) ==
    LET sx == CropSide(box.xyxy[1], box.xyxy[3], req.w)
        sy == CropSide(box.xyxy[2], box.xyxy[4], req.h)
    IN  (IF sx[2] > sx[1] THEN sx[2] - sx[1] ELSE 0)
        * (IF sy[2] > sy[1] THEN sy[2] - sy[1] ELSE 0)

WasClassified(i) == \E k \in 1..Len(effects) : effects[k] = <<"classify", i>>

DetectorLabel(box) ==
    IF box.cls \in DOMAIN yolo.det_names THEN yolo.det_names[box.cls]
    ELSE FmtClass_(box.cls)

\* a confidence as run returns it: rounded to four decimals
Returned(conf) == RoundConf(conf)

\* the boxes run goes through (line 111): those it read off the result
LoopBoxes == ReadBoxes(req.boxes, req.read)

\* the boxes of positive crop area, by their position among the boxes read
RECURSIVE PositiveFrom(_)
PositiveFrom(i) ==
    IF i > Len(LoopBoxes) THEN <<>>
    ELSE (IF CropArea(LoopBoxes[i]) > 0 THEN <<i>> ELSE <<>>) \o PositiveFrom(i + 1)

\* C5 as stated: a box whose crop has zero area after clamping is never given
\* to the classification model and is still among the returned detections,
\* with the detection model's label and confidence.
C5_DegenerateBoxKept ==
    PipelineReadAll =>
        \A i \in 1..Len(req.boxes) :
            CropArea(req.boxes[i]) = 0 =>
                /\ ~WasClassified(i)
                /\ \E k \in 1..Len(resp.detections) :
                      /\ resp.detections[k].class_name = DetectorLabel(req.boxes[i])
                      /\ resp.detections[k].confidence = Returned(req.boxes[i].conf)
                      /\ CropSide(req.boxes[i].xyxy[1], req.boxes[i].xyxy[3], req.w)
                            = <<resp.detections[k].bbox[1], resp.detections[k].bbox[3]>>
                      /\ CropSide(req.boxes[i].xyxy[2], req.boxes[i].xyxy[4], req.h)
                            = <<resp.detections[k].bbox[2], resp.detections[k].bbox[4]>>

\* C5 amended: a box whose crop has zero area after clamping is never given to
\* the classification model and is left out of the returned detections, which
\* are exactly the boxes of positive crop area among those run read off the
\* detector's result, in their order.
C5_DegenerateBoxSkipped ==
    PipelineReturned =>
        LET kept == PositiveFrom(1)
        IN  /\ \A i \in 1..Len(LoopBoxes) :
                  CropArea(LoopBoxes[i]) = 0 => ~WasClassified(i)
            /\ Len(resp.detections) = Len(kept)
            /\ \A k \in 1..Len(kept) :
                  /\ CropSide(LoopBoxes[kept[k]].xyxy[1], LoopBoxes[kept[k]].xyxy[3], req.w)
                        = <<resp.detections[k].bbox[1], resp.detections[k].bbox[3]>>
                  /\ CropSide(LoopBoxes[kept[k]].xyxy[2], LoopBoxes[kept[k]].xyxy[4], req.h)
                        = <<resp.detections[k].bbox[2], resp.detections[k].bbox[4]>>

\* a zero-area box between two boxes that are returned
C5_Witness ==
    /\ PipelineReadAll
    /\ Len(req.boxes) = 3
    /\ CropArea(req.boxes[1]) > 0
    /\ CropArea(req.boxes[2]) = 0
    /\ CropArea(req.boxes[3]) > 0
    /\ Len(resp.detections) = 2

\* the classification model gave the crop of the box a top-1 class that it
\* has a name for
HasTop(box) == box.out.kind = "top" /\ box.out.idx \in DOMAIN yolo.cls_names

C7_BoxInsideImage ==
    PipelineReturned =>
        \A k \in 1..Len(resp.detections) :
            LET b == resp.detections[k].bbox
            IN  /\ 0 <= b[1] /\ b[1] < b[3] /\ b[3] <= req.w
                /\ 0 <= b[2] /\ b[2] < b[4] /\ b[4] <= req.h

\* a returned box that the detector emitted with a negative corner and a
\* corner beyond the image, next to an inverted one that is not returned
C7_Witness ==
    /\ PipelineReturned
    /\ Len(resp.detections) = 1
    /\ \E i, j \in 1..Len(req.boxes) :
          /\ req.boxes[i].xyxy[1] < 0 /\ req.boxes[i].xyxy[3] > 2 * req.w
          /\ CropArea(req.boxes[i]) > 0
          /\ req.boxes[j].xyxy[3] < req.boxes[j].xyxy[1]

(***************************************************************************)
(* Missing models, failing detectors and undecodable uploads               *)
(***************************************************************************)
HasEffect(step) == \E k \in 1..Len(effects) : effects[k][1] = step

\* an upload that passes _validate_image_file
ValidUpload == op = "predict" /\ ValidateImageFile(req.file)

\* the bytes of the upload are an image, to cv2 and to PIL
Decodable == req.cv2_ok /\ req.pil_ok

\* the bytes of the upload are no image, to neither of the two
NoImage == ~req.cv2_ok /\ ~req.pil_ok

\* C8: while no detector model is loaded, no analysis returns detections: a
\* decodable, valid upload to POST /predict is answered with an error and an
\* empty detection list, and run_detection raises instead of returning boxes.
C8_NoFabricatedDetections ==
    /\ (ValidUpload /\ Decodable /\ ~req.model_loaded) =>
           /\ resp.http >= 400
           /\ "detections" \notin DOMAIN resp
    /\ (op = "run_detection" /\ ~req.model_loaded) =>
           resp.kind = "raise"

\* POST /predict without a loaded model answers 200 with boxes no detector
\* produced, and a row for them is in the detections table
C8_Witness ==
    /\ ValidUpload
    /\ wrapper.model = "None"
    /\ ~req.model_loaded
    /\ resp.http = 200
    /\ resp.detections # <<>>
    /\ HasEffect("mock boxes")
    /\ Len(db) = 1
    /\ db[1].total = Len(resp.detections)

\* C9: when the loaded detector raises during inference the request fails:
\* POST /predict answers with an error, no detections and no counts, and
\* run_detection raises; no mock result is returned in place of the failure.
C9_DetectorFailureIsFatal ==
    /\ (ValidUpload /\ Decodable /\ req.model_loaded /\ ~req.detect_ok) =>
           /\ resp.http >= 400
           /\ "detections" \notin DOMAIN resp
           /\ "counts" \notin DOMAIN resp
           /\ ~HasEffect("mock boxes")
    /\ (op = "run_detection" /\ req.model_loaded /\ ~req.detect_ok) =>
           /\ resp.kind = "raise"
           /\ ~HasEffect("mock boxes")

\* the loaded detector raised, and POST /predict answers 200 with the counts
\* of mock boxes
C9_Witness ==
    /\ ValidUpload
    /\ req.model_loaded
    /\ ~req.detect_ok
    /\ HasEffect("predict")
    /\ HasEffect("mock boxes")
    /\ resp.http = 200
    /\ resp.counts # <<>>
    /\ resp.total_count = Len(resp.detections)

\* C10: an upload of acceptable type, size and filename whose bytes are no
\* image is answered with a 4xx status, and for that request no detection
\* runs, no file is written and no history row is inserted.
C10_UndecodableUploadRejected ==
    (ValidUpload /\ NoImage) =>
        /\ resp.http \in 400..499
        /\ ~HasEffect("predict") /\ ~HasEffect("mock boxes")
        /\ ~HasEffect("write uploaded_images") /\ ~HasEffect("write static/results")
        /\ ~HasEffect("insert detections")

\* the undecodable upload is on disk and the answer is a 500
C10_Witness ==
    /\ ValidUpload
    /\ NoImage
    /\ resp.http = 500
    /\ effects = <<<<"write uploaded_images", 0>>>>
    /\ db = <<>>

(***************************************************************************)
(* Validation, recording and the loading of models                         *)
(***************************************************************************)
\* the four reasons for which the contract turns an upload away
TurnedAway(file) ==
    \/ Lower(file.content_type) \notin {"image/jpeg", "image/jpg", "image/png"}
    \/ file.size = 0
    \/ file.size > 10 * 1024 * 1024
    \/ Lower(file.filename[2]) \notin {".jpg", ".jpeg", ".png"}

\* C11: POST /predict answers 400, having saved nothing, run no inference and
\* inserted no row, exactly when the content type is not image/jpeg, image/jpg
\* or image/png, or the body is empty or larger than 10*1024*1024 bytes, or
\* the extension is not .jpg, .jpeg or .png; a body of exactly 10*1024*1024
\* bytes with an allowed type and extension passes the validation.
C11_InvalidUploadRejectedFirst ==
    op = "predict" =>
        /\ resp.http = 400 <=> TurnedAway(req.file)
        /\ resp.http = 400 => effects = <<>>
        /\ TurnedAway(req.file) => effects = <<>>
        /\ (/\ req.file.size = 10 * 1024 * 1024
            /\ Lower(req.file.content_type) \in {"image/jpeg", "image/jpg", "image/png"}
            /\ Lower(req.file.filename[2]) \in {".jpg", ".jpeg", ".png"})
           => resp.http # 400

\* a body of exactly 10*1024*1024 bytes was analysed and recorded
C11_Witness ==
    /\ op = "predict"
    /\ req.file.size = 10 * 1024 * 1024
    /\ resp.http = 200
    /\ HasEffect("write uploaded_images")
    /\ HasEffect("insert detections")

\* the analysis POST /predict computed for the request it is answering
PredictAnalysis ==
    RunInferenceOnBytes(wrapper, req.cv2_ok, req.pil_ok, req.detect_ok, req.dets, ImgW, ImgH,
                        req.draw, req.classes).result

\* C12: when insert_detection raises while a completed analysis is recorded,
\* POST /predict still answers 200 with the computed analysis and analysis_id 0,
\* and POST /analyze-image still returns the computed result: the failure of
\* the storage never makes an error of an analysis already computed.
C12_StorageFailureKeepsAnalysis ==
    /\ (op = "predict" /\ ~req.db_ok) =>
           /\ resp.http = 200
           /\ resp.analysis_id = 0
           /\ resp.total_count = PredictAnalysis.total
           /\ resp.counts = PredictAnalysis.counts
           /\ resp.species = PredictAnalysis.species
           /\ resp.detections = ResponseDetections(PredictAnalysis.boxes)
           /\ ~HasEffect("insert detections")
    /\ (op = "analyze_image" /\ ~req.db_ok) =>
           /\ resp.http = 200
           /\ resp.result = Aggregate(ExtractBoxes(req.raw, req.names))
           /\ ~HasEffect("insert detections")

\* POST /predict answered with detections that no row records
C12_Witness ==
    /\ op = "predict"
    /\ ~req.db_ok
    /\ resp.http = 200
    /\ resp.detections # <<>>
    /\ db = <<>>

\* every occurrence of the step b in effects has the step a before it
Before(a, b) ==
    \A k \in 1..Len(effects) :
        effects[k][1] = b => \E j \in 1..(k - 1) : effects[j][1] = a

\* the steps that follow the first occurrence of the step a in effects
After(a) ==
    {effects[k][1] : k \in {k \in 1..Len(effects) :
                              \E j \in 1..(k - 1) : effects[j][1] = a}}

Recording == op \in {"predict", "analyze_image"}

\* C13: a request of POST /predict or POST /analyze-image that ends with a 4xx
\* or 5xx status has inserted no history row: the row is inserted only after
\* detection, aggregation and annotation of the request completed, and no
\* step after the insert can fail the request.
C13_NoRowForFailedRequest ==
    Recording =>
        /\ resp.http >= 400 => ~HasEffect("insert detections")
        /\ HasEffect("insert detections") =>
              /\ resp.http = 200
              /\ Before("predict", "insert detections")
                    \/ Before("mock boxes", "insert detections")
              /\ op = "analyze_image" => Before("write static/results", "insert detections")
              /\ After("insert detections") \subseteq {"write latest_analysis.json"}
              /\ db # <<>> /\ db[Len(db)].id = effects[CHOOSE k \in 1..Len(effects) :
                                              effects[k][1] = "insert detections"][2]
              /\ db[Len(db)].total =
                    IF op = "predict" THEN resp.total_count
                    ELSE resp.result.total_detections

\* POST /analyze-image inserted its row after the annotated image was written
\* and went on to write latest_analysis.json
C13_Witness ==
    /\ op = "analyze_image"
    /\ resp.http = 200
    /\ HasEffect("insert detections")
    /\ "write latest_analysis.json" \in After("insert detections")
    /\ db # <<>>

\* C14: across any sequence of requests after startup the models are loaded
\* at most once per process: no request handler triggers a model load or a
\* reload.
C14_NoLoadInHandlers ==
    op \in {"predict", "analyze_image"} => ~HasEffect("load")

\* POST /analyze-image loaded the weights again although an earlier request
\* had left the model loaded
C14_Witness ==
    /\ op = "analyze_image"
    /\ req.model_loaded
    /\ HasEffect("load")
    /\ resp.http = 200

\* startup_event found both weight files and loaded both models
BothModelsLoaded ==
    /\ req.import_ok /\ req.det_exists /\ req.cls_exists
    /\ req.det_loads /\ req.cls_loads
    /\ HasEffect("load detection") /\ HasEffect("load classification")

\* app.state.yolo after startup_event: None, or a YoloPipeline with both
\* models loaded; None if a file is missing or a load fails
PipelineWholeOrNone ==
    /\ yolo.kind \in {"unset", "None", "YoloPipeline"}
    /\ op = "startup_event" =>
          /\ yolo.kind \in {"None", "YoloPipeline"}
          /\ yolo.kind = "YoloPipeline" <=> BothModelsLoaded
          /\ (~req.det_exists \/ ~req.cls_exists \/ ~req.det_loads \/ ~req.cls_loads)
                => yolo.kind = "None"

\* C15 as stated: after startup_event app.state.yolo is None or a YoloPipeline
\* with both models loaded, None if either file is missing or either load
\* fails, and POST /ai/analyze then returns the 'Yolo pipeline not
\* initialized' error without running detection.
C15_UnavailableAnswersNotInitialized ==
    /\ PipelineWholeOrNone
    /\ (op = "ai_analyze" /\ yolo.kind = "None") =>
          /\ resp.status = "ERROR"
          /\ resp.error = "Yolo pipeline not initialized"
          /\ effects = <<>>

\* C15, amended: the same, with POST /ai/analyze running no detection and
\* answering with status ERROR: 'Yolo pipeline not initialized' for an upload
\* that cv2.imdecode decodes, 'Invalid image format' for one it returns None
\* for, and the text of cv2's exception for one it raises on.
C15_UnavailableRunsNoDetection ==
    /\ PipelineWholeOrNone
    /\ (op = "ai_analyze" /\ yolo.kind = "None") =>
          /\ resp.status = "ERROR"
          /\ resp.error = CASE req.decoded = "image" -> "Yolo pipeline not initialized"
                             [] req.decoded = "none" -> "Invalid image format"
                             [] req.decoded = "raise" -> "cv2.error"
          /\ "detections" \notin DOMAIN resp
          /\ effects = <<>>

\* a decodable upload answered by a process whose pipeline is None
C15_Witness ==
    /\ op = "ai_analyze"
    /\ yolo.kind = "None"
    /\ req.decoded = "image"
    /\ resp.error = "Yolo pipeline not initialized"

\* C16: at any time after startup GET /status reports the detector as loaded
\* (a model_type other than 'mock') exactly when the detector used by the
\* analysis endpoints is loaded and ready.
C16_StatusTellsReadiness ==
    op = "status" =>
        /\ resp.model_type # "mock" <=> yolo.kind = "YoloPipeline"
        /\ resp.model_type # "mock" <=> MODEL.kind = "YOLO"
        /\ resp.model_type # "mock" <=> detection_model.kind = "YOLO"

\* GET /status says 'mock' while the detectors of /ai/analyze, /analyze-image
\* and the live page are all loaded
C16_Witness ==
    /\ op = "status"
    /\ resp.model_type = "mock"
    /\ yolo.kind = "YoloPipeline"
    /\ MODEL.kind = "YOLO"
    /\ detection_model.kind = "YOLO"

(***************************************************************************)
(* The history                                                             *)
(***************************************************************************)
\* the limit get_history was called with
LimitUsed == effects[1][2]

\* the ids of the rows GET /history returned
ReturnedIds == {resp.history[k].id : k \in 1..Len(resp.history)}

\* C17: after any sequence of insert_detection calls get_history(limit=n)
\* returns min(n, number of stored rows) records, they are the rows with the
\* latest timestamps, and they are listed in non-increasing timestamp order;
\* GET /history accepts only 1 <= limit <= 1000 and uses 100 when the limit is
\* omitted.
C17_LatestRowsFirst ==
    op = "history" =>
        /\ resp.http = 200 <=> (~req.given \/ (req.value >= 1 /\ req.value <= 1000))
        /\ resp.http # 200 => effects = <<>>
        /\ resp.http = 200 =>
              /\ effects = <<<<"get_history", IF req.given THEN req.value ELSE 100>>>>
              /\ Len(resp.history) = Min(LimitUsed, Len(db))
              /\ Cardinality(ReturnedIds) = Len(resp.history)
              /\ \A k \in 1..Len(resp.history) :
                    /\ resp.history[k].id \in 1..Len(db)
                    /\ resp.history[k].timestamp.iso = db[resp.history[k].id].timestamp
              /\ \A k \in 1..(Len(resp.history) - 1) :
                    resp.history[k].timestamp.iso >= resp.history[k + 1].timestamp.iso
              /\ \A k \in 1..Len(resp.history), i \in 1..Len(db) :
                    db[i].id \notin ReturnedIds
                        => resp.history[k].timestamp.iso >= db[i].timestamp

\* GET /history?limit=2 left out the oldest of three rows, which was not the
\* first one inserted
C17_Witness ==
    /\ op = "history"
    /\ req.given /\ req.value = 2
    /\ Len(db) = 3
    /\ Len(resp.history) = 2
    /\ 1 \in ReturnedIds
    /\ resp.history[1].timestamp.iso > resp.history[2].timestamp.iso

\* C18: when writing the history record fails, the otherwise successful
\* response of POST /predict and of POST /analyze-image contains a warning
\* field that reports the persistence failure to the caller.
C18_WarningReported ==
    /\ (op = "predict" /\ ~req.db_ok /\ resp.http = 200) =>
           "warning" \in DOMAIN resp
    /\ (op = "analyze_image" /\ ~req.db_ok /\ resp.http = 200) =>
           "warning" \in DOMAIN resp.result

\* POST /predict answered 200 after a failed insert; of the failure the
\* response shows the null id and analysis_id 0, and no warning
C18_Witness ==
    /\ op = "predict"
    /\ ~req.db_ok
    /\ resp.http = 200
    /\ resp.id = NoId /\ resp.analysis_id = 0
    /\ DOMAIN resp = {"kind", "http", "analysis_id", "total_count", "species",
                       "summary", "annotated_image_url", "detections", "counts",
                       "timestamp", "uploaded_image_url", "id"}

(***************************************************************************)
(* Classes that tie                                                        *)
(***************************************************************************)
\* C19: the per_class rows returned by analyze_image_bytes are ordered by
\* count descending, and two rows of equal count are ordered with the higher
\* average confidence first, whatever the order in which the detector emitted
\* the boxes.
C19_TiesByConfidence ==
    AnalyzeReturned =>
        \A k \in 1..(Len(resp.result.per_class) - 1) :
            LET a == resp.result.per_class[k]
                b == resp.result.per_class[k + 1]
            IN  /\ a.count >= b.count
                /\ a.count = b.count => a.avg_confidence >= b.avg_confidence

\* two classes with one box each: the class the detector emitted first leads,
\* with the lower average confidence
C19_Witness ==
    /\ AnalyzeReturned
    /\ Len(req.raw) = 2
    /\ Len(resp.result.per_class) = 2
    /\ resp.result.per_class[1].class = DictGet(MODEL.names, req.raw[1].cls, "")
    /\ resp.result.per_class[1].count = resp.result.per_class[2].count
    /\ resp.result.per_class[1].avg_confidence < resp.result.per_class[2].avg_confidence

\* analyze_snapshot analysed what the detection model emitted
SnapshotAnalysed ==
    /\ SnapshotReturned
    /\ detection_model.kind = "YOLO"
    /\ req.parse = ParseAll

\* the classes of a list of boxes_info
ClassesOf(boxes_info) == {boxes_info[k].class : k \in 1..Len(boxes_info)}

\* two detection lists with the same count for every class
SameCounts(dets1, dets2) ==
    \A c \in ClassesOf(BoxesInfoOf(dets1)) \cup ClassesOf(BoxesInfoOf(dets2)) :
        CountOf(BoxesInfoOf(dets1), c) = CountOf(BoxesInfoOf(dets2), c)

\* C20: in analyze_snapshot the safe flag depends only on the safety tiers and
\* the counts of the classes: two detection lists with the same per-class
\* counts yield the same safe value, whatever the order of the detections
\* and their confidences.
C20_SafeFromCountsAlone ==
    SnapshotAnalysed =>
        \A other \in TieSnapOutputs :
            SameCounts(other, req.boxes)
                => SnapshotAnalysis(BoxesInfoOf(other)).safe = resp.body.safe

\* one diatom and one rotifer reported safe, where the same two detections
\* with other confidences or in the other order are reported unsafe
C20_Witness ==
    /\ SnapshotAnalysed
    /\ Len(req.boxes) = 2
    /\ resp.body.safe
    /\ resp.body.count = 2
    /\ \E other \in TieSnapOutputs :
          /\ SameCounts(other, req.boxes)
          /\ ~SnapshotAnalysis(BoxesInfoOf(other)).safe

(***************************************************************************)
(* The aggregation run twice                                               *)
(***************************************************************************)
\* C21: running the aggregation of analyze_image_bytes twice on the same
\* detection list yields identical per_class rows and an identical verdict;
\* no state of the first run reaches the second.
C21_AggregationIdempotent ==
    /\ op = "aggregate" => resp.first = Aggregate(req.boxes)
    /\ op = "aggregate again" =>
          /\ resp.second.per_class = resp.first.per_class
          /\ resp.second.overall_verdict = resp.first.overall_verdict
          /\ resp.second = resp.first
          /\ resp.second = Aggregate(req.boxes)

\* a second run on two classes, the first run having left their counts behind
C21_Witness ==
    /\ op = "aggregate again"
    /\ Len(req.boxes) = 2
    /\ Len(resp.second.per_class) = 2
    /\ resp.second.overall_verdict # "Safe"
    /\ Len(resp.left) = 2

(***************************************************************************)
(* Input images                                                            *)
(***************************************************************************)
Annotating == op \in {"YoloPipeline.run", "annotate_image", "_annotate_image_pil"}

\* the marks a call had to draw
MarksToDraw ==
    IF op = "YoloPipeline.run"
    THEN {ClampedBox(req.boxes[i].xyxy, req.w, req.h) :
            i \in {i \in 1..Len(req.boxes) :
                     ~Degenerate(ClampedBox(req.boxes[i].xyxy, req.w, req.h))}}
    ELSE IF op = "annotate_image"
    THEN IF req.cv2_available THEN Range(IntCorners(req.boxes)) ELSE {}
    ELSE Range(BoxCorners(req.boxes))

\* C22: YoloPipeline.run, analyze_image_bytes and AquaSafeAI.annotate_image
\* draw only on a copy: the caller's image is unchanged after the call, and in
\* YoloPipeline.run every crop given to the classifier is cut from the
\* unannotated input, never from an image that carries earlier boxes.
C22_InputImageUnchanged ==
    Annotating =>
        /\ resp.input_after = req.image
        /\ resp.annotated = req.image \cup MarksToDraw
        /\ op = "YoloPipeline.run" =>
              \A k \in 1..Len(resp.crops) : resp.crops[k].cut_from = req.image

\* YoloPipeline.run drew two boxes and cut the second crop after the first
\* box was drawn
C22_Witness ==
    /\ op = "YoloPipeline.run"
    /\ Len(resp.crops) = 2
    /\ Cardinality(resp.annotated \ req.image) = 2
    /\ resp.input_after = req.image

(***************************************************************************)
(* routes/live_detect.py: GET /api/download-report/{snap_id}/              *)
(***************************************************************************)
\* lines 398-480: what the handler draws on the PDF canvas
ReportDocument(snap_id, snap_data, annotated_exists, embed_ok) ==
    [snapshot_id |-> snap_id,
     species |-> snap_data.species,
     count |-> snap_data.count,
     confidence |-> snap_data.confidence,
     status |-> IF snap_data.safe THEN "SAFE" ELSE "UNSAFE",
     table |-> snap_data.per_class_stats,
     image |-> IF ~annotated_exists THEN "none"
               ELSE IF embed_ok THEN "embedded"
               ELSE "could not be embedded"]

\* fastapi.responses.FileResponse(path, media_type, filename): the response
\* calls os.stat(path) before it sends anything; os.stat of an object that is
\* no path raises TypeError, and the server answers 500.
FileResponse(content, media_type) ==
    IF content.kind = "path"
    THEN [kind |-> "return", http |-> 200, media_type |-> media_type]
    ELSE [kind |-> "raise", http |-> 500, detail |-> "Internal Server Error"]

\* lines 378-500
DownloadReportOutcome(store, snap_id, pdf_ok, annotated_exists, embed_ok) ==
    IF snap_id \notin DOMAIN store THEN
        [resp |-> [kind |-> "raise", http |-> 404, detail |-> "Snapshot not found"],
         effects |-> <<>>]
    ELSE IF ~store[snap_id].analyzed THEN
        [resp |-> [kind |-> "raise", http |-> 400,
                   detail |-> "Snapshot has not been analyzed yet"],
         effects |-> <<>>]
    ELSE IF ~pdf_ok THEN
        [resp |-> [kind |-> "raise", http |-> 500,
                   detail |-> "Report generation failed: Exception"],
         effects |-> <<>>]
    ELSE
        [resp |-> FileResponse(
                      [kind |-> "BytesIO",
                       bytes |-> ReportDocument(snap_id, store[snap_id],
                                                annotated_exists, embed_ok)],
                      "application/pdf"),
         effects |-> <<<<"build pdf", snap_id>>>>]

\* The request for the report of snap_id; analyze_http is the status the
\* analysis of snap_id has just answered (0: the client asks at another time).
DownloadReportFor(snap_id, analyze_http) ==
    \E pdf_ok \in BOOLEAN, annotated_exists \in BOOLEAN, embed_ok \in BOOLEAN :
        LET drawn == snap_id \in DOMAIN snapshots_store
                     /\ snapshots_store[snap_id].analyzed
            out == DownloadReportOutcome(snapshots_store, snap_id, pdf_ok,
                                         annotated_exists, embed_ok)
        IN  /\ ~drawn => pdf_ok
            /\ ~(drawn /\ pdf_ok) => annotated_exists
            /\ ~(drawn /\ pdf_ok /\ annotated_exists) => embed_ok
            /\ op' = "download_report"
            /\ req' = [snap_id |-> snap_id, analyze_http |-> analyze_http,
                       pdf_ok |-> pdf_ok, annotated_exists |-> annotated_exists,
                       embed_ok |-> embed_ok]
            /\ resp' = out.resp
            /\ effects' = out.effects
            /\ UNCHANGED <<models, snapshots_store, uploading, saving, clock, db, history_json>>

DownloadReport ==
    /\ detection_model.kind # "unset"
    /\ op = "none"
    /\ \E snap_id \in SnapTimes \cup UnknownIds : DownloadReportFor(snap_id, 0)

\* test_live_detect.py lines 27-80: the client asks for the report as soon as
\* the analysis of the snapshot has answered.
DownloadReportNext ==
    /\ op = "analyze_snapshot"
    /\ DownloadReportFor(req.snap_id, resp.http)

NextReport ==
    LoadModels \/ UploadSnapshot \/ UploadSnapshotStore \/ AnalyzeSnapshot
    \/ DownloadReport
    \/ DownloadReportNext \/ Deliver

SpecReport == InitCommon /\ [][NextReport]_vars

\* C23: once the upload has returned an id and the analysis of that id has
\* answered 200, the report of that id is answered 200 with a PDF, with or
\* without a detection model.
C23_ReportAfterAnalysis ==
    (op = "download_report" /\ req.analyze_http = 200)
        => (resp.http = 200 /\ resp.kind = "return"
            /\ resp.media_type = "application/pdf")

C23_Witness ==
    /\ op = "download_report"
    /\ req.analyze_http = 200
    /\ detection_model.kind = "None"
    /\ req.snap_id \in DOMAIN snapshots_store
    /\ resp.http = 400


Analyzed(store, id) == id \in DOMAIN store /\ store[id].analyzed

\* C26: download_report builds a report only for an id of snapshots_store
\* whose analyzed flag is true, answers 404 for an unknown id and 400 for an
\* uploaded id that is not analyzed; the flag is false after upload_snapshot
\* and turns true only in an analyze_snapshot run that completed detection,
\* aggregation and the saving of the annotated image.
C26_ReportOnlyOfAnalyzed ==
    [][/\ op' = "download_report" =>
            /\ (\E k \in 1..Len(effects') : effects'[k][1] = "build pdf")
                   => Analyzed(snapshots_store, req'.snap_id)
            /\ req'.snap_id \notin DOMAIN snapshots_store => resp'.http = 404
            /\ (req'.snap_id \in DOMAIN snapshots_store
                /\ ~Analyzed(snapshots_store, req'.snap_id)) => resp'.http = 400
       /\ (op' = "upload_snapshot" /\ resp'.kind = "return")
              => ~Analyzed(snapshots_store', resp'.id)
       /\ \A id \in SnapTimes :
              (~Analyzed(snapshots_store, id) /\ Analyzed(snapshots_store', id)) =>
                  /\ op' = "analyze_snapshot"
                  /\ req'.snap_id = id
                  /\ effects'[1][1] = "detect"
                  /\ resp'.body = SnapshotAnalysis(BoxesInfo(
                                      ParsedBoxes(req'.boxes, req'.parse),
                                      detection_model.names, ClassifierNames))
                  /\ effects'[Len(effects')] = <<"write annotated", id>>]_vars

C26_Witness ==
    /\ op = "analyze_snapshot"
    /\ resp.http = 200
    /\ req.imwrite = "false"
    /\ Analyzed(snapshots_store, req.snap_id)
    /\ ~HasEffect("write annotated")


(***************************************************************************)
(* routes/live_detect.py: requests of POST /api/upload-snapshot/ that are  *)
(* handled at the same time                                                *)
(***************************************************************************)
\* line 120: the milliseconds the clock shows when a request takes its id
UploadTimes == {1, 2}

UploadNames == {"", "drop.jpg", "next.jpg"}

\* the detection model finds nothing in these snapshots
UploadOutputs == {<<>>}

UploadSnapshotAny == UploadSnapshotAt(UploadNames, UploadTimes)

UploadSnapshotStoreAny == UploadSnapshotStoreAt(UploadTimes)

AnalyzeSnapshotAny == AnalyzeSnapshotOn(UploadOutputs)

NextUploads ==
    LoadModels \/ UploadSnapshotAny \/ UploadSnapshotStoreAny \/ AnalyzeSnapshotAny
    \/ Deliver

SpecUploads == InitCommon /\ [][NextUploads]_vars

\* C27: an upload_snapshot request that is answered with an id stores under
\* an id under which no earlier request stored and which no request that is
\* being handled at the same time holds, so that no request overwrites the
\* file or the entry of another.
C27_DistinctSnapshotIds ==
    [][(op' = "upload_snapshot" /\ resp'.kind = "return") =>
           /\ resp'.id \notin DOMAIN snapshots_store
           /\ \A k \in 1..Len(uploading') : uploading'[k].id # resp'.id]_vars

\* a request was answered with the id that a request still waiting for its
\* body holds as well: the entry and the file of the one answered are the
\* ones the other will write over
C27_Witness ==
    /\ op = "upload_snapshot"
    /\ resp.kind = "return"
    /\ snapshots_store[resp.id].filename = "drop.jpg"
    /\ \E k \in 1..Len(uploading) :
           uploading[k].id = resp.id /\ uploading[k].filename = "next.jpg"


(***************************************************************************)
(* ai_analyzer.py: AquaSafeAI.save_to_history                              *)
(***************************************************************************)
MaxSaves == 12

\* line 430: history = history[-10:]
KeepLast == 10

\* s[-n:]
LastN_First(s, n) == IF Len(s) <= n THEN s ELSE SubSeq(s, 1, n)

LastN(s, n) == IF Len(s) <= n THEN s ELSE SubSeq(s, Len(s) - n + 1, Len(s))

\* lines 424-427: {"timestamp": datetime.now().isoformat(), **analysis_result};
\* the keys of analysis_result come last and win.
HistoryEntry(now, analysis_result) == DictUpdate([timestamp |-> now], analysis_result)

\* lines 418-421: history = [] unless the file exists, else json.load(f),
\* which raises on a file that holds no JSON document
ReadHistory(file) ==
    IF ~file.exists THEN [ok |-> TRUE, history |-> <<>>]
    ELSE IF file.text = "json" THEN [ok |-> TRUE, history |-> file.entries]
    ELSE [ok |-> FALSE, history |-> <<>>]

\* lines 424-430: append and truncate
AppendedHistory(history, now, analysis_result) ==
    LastN(Append(history, HistoryEntry(now, analysis_result)), KeepLast)

\* line 432: open(self.history_file, 'w') leaves an empty file
OpenedForWriting == [exists |-> TRUE, text |-> "torn", entries |-> <<>>, chars |-> 0]

\* the decimal digits of a number as json.dump writes it
RECURSIVE Digits(_)
Digits(n) == IF n < 10 THEN 1 ELSE 1 + Digits(n \div 10)

\* the characters between the quotes of a status
StatusChars(status) == IF status = "SAFE" THEN 4 ELSE 6

\* line 433, indent=2: the characters of one entry of the list, which are
\* the lines `  {`, `    "timestamp": 12,`, `    "status": "SAFE"` and `  }`
EntryChars(entry) == 43 + Digits(entry.timestamp) + StatusChars(entry.status)

\* line 433: the characters of the document json.dump(history, f, indent=2)
\* writes: `[]` for the empty list, else `[`, the entries with `,` and a
\* line break between two of them, and `]` on a line of its own
DocumentChars(history) ==
    IF history = <<>> THEN 2
    ELSE 4 + SumSeq([k \in 1..Len(history) |-> EntryChars(history[k])])
           + 2 * (Len(history) - 1)

\* line 433: json.dump(history, f, indent=2) and the close of the file, on
\* a file that is no longer than the document
Dumped(history) ==
    [exists |-> TRUE, text |-> "json", entries |-> history,
     chars |-> DocumentChars(history)]

\* line 433 on the file as it is when the caller closes it: the document
\* goes to the start of the file, where the caller's open left its
\* position, and what the file holds beyond the length of the document
\* stays.  That is the tail of a longer document another caller wrote since
\* the open, and the file then holds no JSON document.
WrittenOver(file, history) ==
    IF DocumentChars(history) >= file.chars THEN Dumped(history)
    ELSE [exists |-> TRUE, text |-> "torn", entries |-> <<>>, chars |-> file.chars]

\* lines 410-435, one call run from its first line to its last; an
\* exception is printed and the file stays as it is.
SaveToHistoryOutcome(file, now, analysis_result) ==
    LET r == ReadHistory(file)
    IN  IF r.ok THEN Dumped(AppendedHistory(r.history, now, analysis_result))
        ELSE file

\* safety_status of compute_statistics
SaveStatuses == {"SAFE", "UNSAFE"}

\* lines 470-482 and 410-435: the result analyze_image hands to
\* save_to_history, with the timestamp analyze_image put in it.  The file is
\* opened for writing only when the list was read (line 432 comes after
\* json.load); the call returns None either way.
SaveToHistoryAt(Limit) ==
    /\ ai_model # "unset"
    /\ op = "none"
    /\ clock < Limit
    /\ \E status \in SaveStatuses :
        LET now == clock + 1
            analysis_result == [status |-> status, timestamp |-> now]
        IN  /\ op' = "save_to_history"
            /\ req' = [analysis_result |-> analysis_result, now |-> now]
            /\ history_json' = SaveToHistoryOutcome(history_json, now, analysis_result)
            /\ effects' = IF ReadHistory(history_json).ok
                          THEN <<<<"write history", now>>>> ELSE <<>>
            /\ resp' = [kind |-> "return"]
            /\ clock' = now
    /\ UNCHANGED <<models, snapshots_store, uploading, saving, db>>

SaveToHistory == SaveToHistoryAt(MaxSaves)

NextSave == GetAiAnalyzer \/ SaveToHistory \/ Deliver

SpecSave == InitCommon /\ [][NextSave]_vars

\* C24: after n save_to_history calls made one after the other, history.json
\* holds min(n, 10) entries: the min(n, 10) results saved last, the oldest
\* first, the newest being the result of the call that has just ended.
C24_LastTenInSaveOrder ==
    [][LET n == clock'
           entries == history_json'.entries
           before == history_json.entries
           kept == Len(entries) - 1
       IN  /\ history_json'.exists <=> n > 0
           /\ history_json'.text = "json"
           /\ Len(entries) = Min(n, 10)
           /\ \A k \in 1..Len(entries) : entries[k].timestamp = n - Len(entries) + k
           /\ op' = "save_to_history" =>
                  /\ entries[Len(entries)] = req'.analysis_result
                  /\ \A k \in 1..kept : entries[k] = before[Len(before) - kept + k]]_vars

C24_Witness ==
    /\ op = "save_to_history"
    /\ clock = 12
    /\ Len(history_json.entries) = 10
    /\ history_json.entries[1].timestamp = 3
    /\ history_json.entries[10] = req.analysis_result


(***************************************************************************)
(* ai_analyzer.py: two calls of save_to_history at the same time.  The     *)
(* method takes no lock; each call reads the file (lines 418-421), opens   *)
(* it for writing (line 432) and writes it out (line 433), and the steps   *)
(* of two threads or two processes come in any order.                      *)
(***************************************************************************)
Callers == {1, 2}

MaxRaceSaves == 4

Finished(call) == call.pc \in {"done", "failed"}

\* lines 470-482 in two callers: each has its result, with the status
\* compute_statistics gave it
SaveTwoBegin ==
    /\ ai_model # "unset"
    /\ op = "none"
    /\ clock + 2 <= MaxRaceSaves
    /\ op' = "save_to_history x2"
    /\ \E status \in [Callers -> SaveStatuses] :
        req' = [calls |-> [p \in Callers |->
                   [pc |-> "read", history |-> <<>>,
                    analysis_result |-> [status |-> status[p],
                                         timestamp |-> clock + p]]]]
    /\ clock' = clock + 2
    /\ effects' = <<>>
    /\ resp' = Idle
    /\ UNCHANGED <<models, snapshots_store, uploading, saving, db, history_json>>

\* lines 417-430 of one caller: read, append, truncate; an exception of
\* json.load ends the call at line 435
SaveRead ==
    /\ op = "save_to_history x2"
    /\ \E p \in Callers :
        LET call == req.calls[p]
            r == ReadHistory(history_json)
        IN  /\ call.pc = "read"
            /\ req' = [calls |-> [req.calls EXCEPT ![p] =
                          IF r.ok
                          THEN [call EXCEPT !.pc = "open",
                                  !.history = AppendedHistory(r.history, clock,
                                                              call.analysis_result)]
                          ELSE [call EXCEPT !.pc = "failed"]]]
            /\ effects' = Append(effects, <<"read history", p>>)
    /\ UNCHANGED <<models, snapshots_store, uploading, saving, clock, db, history_json, op, resp>>

\* line 432 of one caller
SaveOpen ==
    /\ op = "save_to_history x2"
    /\ \E p \in Callers :
        /\ req.calls[p].pc = "open"
        /\ req' = [calls |-> [req.calls EXCEPT ![p].pc = "dump"]]
        /\ history_json' = OpenedForWriting
        /\ effects' = Append(effects, <<"open history", p>>)
    /\ UNCHANGED <<models, snapshots_store, uploading, saving, clock, db, op, resp>>

\* line 433 of one caller: the document is written when the file is closed
SaveDump ==
    /\ op = "save_to_history x2"
    /\ \E p \in Callers :
        /\ req.calls[p].pc = "dump"
        /\ req' = [calls |-> [req.calls EXCEPT ![p].pc = "done"]]
        /\ history_json' = WrittenOver(history_json, req.calls[p].history)
        /\ effects' = Append(effects, <<"write history", p>>)
    /\ UNCHANGED <<models, snapshots_store, uploading, saving, clock, db, op, resp>>

\* both calls have returned
SaveTwoEnd ==
    /\ op = "save_to_history x2"
    /\ \A p \in Callers : Finished(req.calls[p])
    /\ Deliver

AnalyzerBuilt ==
    /\ op = "get_ai_analyzer"
    /\ Deliver

\* a call that runs with no other beside it, before or after two that do
SaveAlone == SaveToHistoryAt(MaxRaceSaves)

SaveAloneEnd ==
    /\ op = "save_to_history"
    /\ Deliver

NextRace ==
    GetAiAnalyzer \/ AnalyzerBuilt \/ SaveTwoBegin \/ SaveRead \/ SaveOpen
    \/ SaveDump \/ SaveTwoEnd \/ SaveAlone \/ SaveAloneEnd

SpecRace == InitCommon /\ [][NextRace]_vars

BothReturned ==
    /\ op = "save_to_history x2"
    /\ \A p \in Callers : Finished(req.calls[p])

\* C28: when two save_to_history calls have interleaved and both have
\* returned, with fewer than 10 saves since, history.json holds the results
\* of both.
C28_NoSaveLost ==
    BothReturned =>
        /\ history_json.text = "json"
        /\ \A p \in Callers :
               \E k \in 1..Len(history_json.entries) :
                   history_json.entries[k] = req.calls[p].analysis_result

C28_Witness ==
    /\ BothReturned
    /\ \A p \in Callers : req.calls[p].pc = "done"
    /\ history_json.text = "json"
    /\ \E p \in Callers :
           \A k \in 1..Len(history_json.entries) :
               history_json.entries[k] # req.calls[p].analysis_result


(***************************************************************************)
(* routes/admin.py                                                         *)
(***************************************************************************)
\* line 17
ADMIN_TOKEN == "ADMIN_TOKEN"

\* lines 32-85: the pages, with the template each one renders
AdminPages ==
    [path : {"/admin"}, template : {"admin/index.html"}]
    \cup [path : {"/admin/history"}, template : {"admin/history.html"}]
    \cup [path : {"/admin/view/1", "/admin/view/history.json"},
          template : {"admin/view.html"}]
    \cup [path : {"/admin/uploads"}, template : {"admin/uploads.html"}]
    \cup [path : {"/admin/logs"}, template : {"admin/logs.html"}]
    \cup [path : {"/admin/stats"}, template : {"admin/stats.html"}]
    \cup [path : {"/admin/events"}, template : {"admin/events.html"}]

\* lines 90-123: the JSON endpoints and the stream, with the limit each one
\* hands to get_db_history (0: it reads no history before it answers)
AdminApis ==
    {[path |-> "/admin/api/history", limit |-> 200],
     [path |-> "/admin/api/uploads", limit |-> 0],
     [path |-> "/admin/api/stats", limit |-> 1000],
     [path |-> "/admin/api/events/stream", limit |-> 0]}

\* request.headers.get / request.query_params.get: "None" stands for a
\* header or a parameter the request does not have
TokenValues == {"None", "", "ADMIN_TOKEN", "wrong"}

\* Python's a or b
PyOr(a, b) == IF a \in {"None", ""} THEN b ELSE a

\* a check that takes the token from either place
CheckToken_Either(header, query) == header = ADMIN_TOKEN \/ query = ADMIN_TOKEN

\* lines 23-27: check_token; TRUE when it returns, FALSE when it raises 401
CheckToken(header, query) == PyOr(header, query) = ADMIN_TOKEN

Unauthorized == [kind |-> "raise", http |-> 401, detail |-> "Unauthorized"]

\* lines 32-85
AdminPageOutcome(page, header, query, items) ==
    IF ~CheckToken(header, query) THEN Unauthorized
    ELSE IF page.path = "/admin/view/1" THEN
        [kind |-> "return", http |-> 200,
         body |-> [template |-> page.template,
                   item |-> IF \E k \in 1..Len(items) : items[k].id = 1
                            THEN "row 1" ELSE "file 1"]]
    ELSE IF page.path = "/admin/view/history.json" THEN
        [kind |-> "return", http |-> 200,
         body |-> [template |-> page.template, item |-> "file history.json"]]
    ELSE [kind |-> "return", http |-> 200,
          body |-> [template |-> page.template, item |-> "none"]]

\* lines 90-145
AdminApiOutcome(api, header, query, items) ==
    IF ~CheckToken(header, query) THEN Unauthorized
    ELSE [kind |-> "return", http |-> 200,
          body |-> [rows |-> IF api.limit = 0 THEN <<>> ELSE items,
                    total_analyses |-> IF api.path = "/admin/api/stats"
                                       THEN Len(items) ELSE 0]]

AdminPage ==
    /\ op = "none"
    /\ \E page \in AdminPages, header \in TokenValues, query \in TokenValues,
          items \in GetHistory(db, 1000) :
        /\ op' = "admin"
        /\ req' = [path |-> page.path, header |-> header, query |-> query]
        /\ resp' = AdminPageOutcome(page, header, query, items)
        /\ effects' = IF CheckToken(header, query) /\ page.path = "/admin/view/1"
                      THEN <<<<"get_history", 1000>>>> ELSE <<>>
    /\ UNCHANGED <<models, snapshots_store, uploading, saving, clock, db, history_json>>

AdminApi ==
    /\ op = "none"
    /\ \E api \in AdminApis, header \in TokenValues, query \in TokenValues :
       \E items \in GetHistory(db, api.limit) :
        /\ op' = "admin"
        /\ req' = [path |-> api.path, header |-> header, query |-> query]
        /\ resp' = AdminApiOutcome(api, header, query, items)
        /\ effects' = IF CheckToken(header, query) /\ api.limit > 0
                      THEN <<<<"get_history", api.limit>>>> ELSE <<>>
    /\ UNCHANGED <<models, snapshots_store, uploading, saving, clock, db, history_json>>

\* the analyses saved to the history the admin endpoints show
SaveForAdmin == SaveToHistoryRouteAt({PoorAnalysis})

SaveForAdminStore == SaveToHistoryRouteStoreAt({1})

NextAdmin ==
    SaveForAdmin \/ SaveForAdminStore \/ AdminPage \/ AdminApi \/ Deliver

SpecAdmin == InitCommon /\ [][NextAdmin]_vars

Authorized == resp.http # 401

NoData == "body" \notin DOMAIN resp /\ effects = <<>>

\* C25 as stated: a request to /admin or /admin/api that has the token
\* neither in the x-admin-token header nor in ?token= is answered 401 without
\* data, and one that has it in either place is authorized whatever the other
\* place holds.
C25_TokenInEitherPlace ==
    op = "admin" =>
        /\ ~Authorized => NoData
        /\ Authorized <=> (req.header = ADMIN_TOKEN \/ req.query = ADMIN_TOKEN)

\* C25, corrected: a request is authorized when the header holds the token,
\* or when the header is absent or empty and ?token= holds the token; every
\* other request, one with a wrong header and the right ?token= among them,
\* is answered 401 without data.
C25_HeaderBeforeQuery ==
    op = "admin" =>
        /\ ~Authorized => NoData
        /\ Authorized <=>
               \/ req.header = ADMIN_TOKEN
               \/ (req.header \in {"None", ""} /\ req.query = ADMIN_TOKEN)

C25_Witness ==
    /\ op = "admin"
    /\ req.header = "wrong"
    /\ req.query = ADMIN_TOKEN
    /\ resp = Unauthorized
    /\ Len(db) > 0


(***************************************************************************)
(* routes/admin.py: GET /admin/api/events/stream                           *)
(***************************************************************************)
\* the rows inserted while a stream is open: one more than a poll reads
MaxStreamRows == 51

\* saves to history.json while a stream is open
MaxStreamSaves == 1

\* the rows inserted while a stream is open on a server that also saves to
\* history.json
MaxSavedRows == 16

\* line 129: get_db_history(limit=50)
PollLimit == 50

\* lines 121-126 and 145: an authorized request opens the stream; the
\* generator starts with seen = set().  seen holds the ids and seen_files the
\* filenames of the one set of the code.  pc is the place the generator is
\* at: "poll" before line 129 (asleep at line 143, or not yet started),
\* "rows" in the loop of lines 130-135, "files" in the loop of lines 137-142;
\* rows and files are what these loops have yet to visit.
EventsStream ==
    /\ op = "none"
    /\ \E header \in TokenValues, query \in TokenValues :
        /\ IF CheckToken(header, query)
           THEN /\ op' = "events_stream"
                /\ req' = [path |-> "/admin/api/events/stream",
                           opened_at |-> Len(db), seen |-> {}, seen_files |-> {},
                           pc |-> "poll", rows |-> <<>>, files |-> <<>>]
                /\ resp' = [kind |-> "return", http |-> 200,
                            media_type |-> "text/event-stream"]
           ELSE /\ op' = "admin"
                /\ req' = [path |-> "/admin/api/events/stream",
                           header |-> header, query |-> query]
                /\ resp' = Unauthorized
        /\ effects' = <<>>
    /\ UNCHANGED <<models, snapshots_store, uploading, saving, clock, db, history_json>>

\* db.py lines 30-41: another request inserts a history row while the
\* stream is open, in a transaction of its own, between any two steps of
\* the generator; the wall clock moves on between two inserts
StreamInsert ==
    /\ op = "events_stream"
    /\ Len(db) < (IF clock = 0 THEN MaxStreamRows ELSE MaxSavedRows)
    /\ LET rec == [timestamp |-> Len(db) + 1,
                   image_path |-> <<"static/results", "generated.jpg">>,
                   counts |-> <<>>, total |-> 0, dominant |-> "None",
                   quality |-> "Good", confidence |-> 0]
       IN  db' = Append(db, InsertedRow(db, rec))
    /\ UNCHANGED <<models, snapshots_store, uploading, saving, clock, history_json, op, req, effects, resp>>

\* db.py line 45 on a table whose timestamps grow with the ids: the ids of
\* the limit newest rows, the newest first
LatestIds(table, limit) ==
    [k \in 1..Min(limit, Len(table)) |-> table[Len(table) - k + 1].id]

\* lines 130-132: the place of the first row the loop has yet to visit
\* whose id is not in seen; 0 when there is none
FirstUnseen(ids, seen) ==
    IF \A k \in 1..Len(ids) : ids[k] \in seen THEN 0
    ELSE CHOOSE k \in 1..Len(ids) :
             ids[k] \notin seen /\ \A j \in 1..(k - 1) : ids[j] \in seen

\* A file name is the sequence of its characters.  Alphabet holds the
\* characters of the names below in the order of their code points, the
\* order in which Python compares strings.
Alphabet ==
    <<".", "_", "a", "b", "c", "d", "e", "f", "g", "h", "i", "j", "k", "l", "m",
      "n", "o", "p", "q", "r", "s", "t", "u", "v", "w", "x", "y", "z">>

Ord(c) == CHOOSE i \in 1..Len(Alphabet) : Alphabet[i] = c

\* f.endswith(suffix)
EndsWith(f, suffix) ==
    /\ Len(f) >= Len(suffix)
    /\ SubSeq(f, Len(f) - Len(suffix) + 1, Len(f)) = suffix

\* word in f
Contains(f, word) ==
    \E i \in 1..(Len(f) - Len(word) + 1) : SubSeq(f, i, i + Len(word) - 1) = word

\* f < g as Python compares two strings: by the first character they differ
\* in, a proper prefix before the longer string
StrLess(f, g) ==
    \/ Len(f) < Len(g) /\ SubSeq(g, 1, Len(f)) = f
    \/ \E i \in 1..Min(Len(f), Len(g)) :
          /\ SubSeq(f, 1, i - 1) = SubSeq(g, 1, i - 1)
          /\ Ord(f[i]) < Ord(g[i])

\* sorted(names, reverse=True) of names that are all different
RECURSIVE SortedReverse(_)
SortedReverse(names) ==
    IF names = {} THEN <<>>
    ELSE LET top == CHOOSE f \in names : \A g \in names : g = f \/ StrLess(g, f)
         IN  <<top>> \o SortedReverse(names \ {top})

\* utils/request_logger.py lines 14-23: list_history_jsons() on a backend
\* folder that holds the files dir: the names that end in ".json" and have
\* "resp", "analyze" or "history" in them, the last in string order first
ListHistoryJsons(dir) ==
    SortedReverse({f \in dir :
        /\ EndsWith(f, <<".", "j", "s", "o", "n">>)
        /\ \/ Contains(f, <<"r", "e", "s", "p">>)
           \/ Contains(f, <<"a", "n", "a", "l", "y", "z", "e">>)
           \/ Contains(f, <<"h", "i", "s", "t", "o", "r", "y">>)})

\* what os.listdir gives for backend/ in the repository
RepositoryFiles ==
    {<<"a", "i", "_", "a", "n", "a", "l", "y", "z", "e", "r", ".", "p", "y">>,
     <<"c", "o", "n", "f", "i", "g", ".", "p", "y">>,
     <<"d", "a", "t", "a", "b", "a", "s", "e">>,
     <<"d", "e", "b", "u", "g", "_", "y", "o", "l", "o", "_", "t", "e", "s",
      "t", ".", "p", "y">>,
     <<"f", "i", "n", "a", "l", "_", "p", "i", "p", "e", "l", "i", "n", "e",
      ".", "p", "y">>,
     <<"m", "a", "i", "n", ".", "p", "y">>,
     <<"r", "o", "u", "t", "e", "s">>,
     <<"r", "u", "n", "_", "s", "e", "r", "v", "e", "r", ".", "p", "y">>,
     <<"s", "c", "r", "i", "p", "t", "s">>,
     <<"s", "e", "r", "v", "i", "c", "e", "s">>,
     <<"t", "e", "s", "t", "_", "a", "p", "i", ".", "p", "y">>,
     <<"t", "e", "s", "t", "_", "l", "i", "v", "e", "_", "d", "e", "t", "e",
      "c", "t", ".", "p", "y">>,
     <<"u", "t", "i", "l", "s">>}

HistoryJsonName == <<"h", "i", "s", "t", "o", "r", "y", ".", "j", "s", "o", "n">>

\* the working directory of the server: the folder above backend/, or
\* backend/ itself, where run_backend.py goes before it starts the server
WorkingDirs == {"above", "backend"}

\* ai_analyzer.py lines 90 and 410-435: another request saves an analysis
\* to history.json while the stream is open.  The path backend/history.json
\* is taken from the working directory: the file is written to BACKEND_DIR
\* when that is the folder above backend/, and to backend/backend/ when it
\* is backend/.
StreamSave ==
    /\ op = "events_stream"
    /\ clock < MaxStreamSaves
    /\ Len(db) <= MaxSavedRows
    /\ \E cwd \in WorkingDirs :
        LET now == clock + 1
            saved == SaveToHistoryOutcome(history_json, now,
                                          [status |-> "SAFE", timestamp |-> now])
        IN  /\ history_json' = [exists |-> saved.exists, text |-> saved.text,
                                entries |-> saved.entries, chars |-> saved.chars,
                                cwd |-> cwd]
            /\ clock' = now
    /\ UNCHANGED <<models, snapshots_store, uploading, saving, db, op, req, effects, resp>>

\* history.json is among the files of BACKEND_DIR
InBackendDir(file) == file.exists /\ file.cwd = "above"

\* utils/request_logger.py lines 9-10 and 18: os.listdir(HISTORY_JSONS_DIR),
\* the files of the repository and history.json once it was written there
BackendDir(saved) ==
    RepositoryFiles \cup (IF saved THEN {HistoryJsonName} ELSE {})

\* line 137: what list_history_jsons() returns, without and with
\* history.json in the folder
BackendJsons == [saved \in BOOLEAN |-> ListHistoryJsons(BackendDir(saved))]

\* lines 127-129: a round of the loop begins; the generator reads the 50
\* latest rows.  effects holds the events of the round.
StreamPoll ==
    /\ op = "events_stream"
    /\ req.pc = "poll"
    /\ req' = [req EXCEPT !.pc = "rows", !.rows = LatestIds(db, PollLimit)]
    /\ effects' = <<>>
    /\ UNCHANGED <<models, snapshots_store, uploading, saving, clock, db, history_json, op, resp>>

\* lines 130-135: the loop goes on to the next row whose id is not in seen,
\* adds the id and yields the event; the generator is suspended at the yield
\* until the event has been sent
StreamRow ==
    /\ op = "events_stream"
    /\ req.pc = "rows"
    /\ LET k == FirstUnseen(req.rows, req.seen)
       IN  /\ k > 0
           /\ req' = [req EXCEPT !.seen = @ \cup {req.rows[k]},
                                 !.rows = SubSeq(@, k + 1, Len(@))]
           /\ effects' = Append(effects, <<"event", req.rows[k]>>)
    /\ UNCHANGED <<models, snapshots_store, uploading, saving, clock, db, history_json, op, resp>>

\* lines 130-137: no row is left whose id is not in seen; the generator
\* lists the JSON files the folder holds at that time
StreamListFiles ==
    /\ op = "events_stream"
    /\ req.pc = "rows"
    /\ FirstUnseen(req.rows, req.seen) = 0
    /\ req' = [req EXCEPT !.pc = "files", !.rows = <<>>,
                          !.files = BackendJsons[InBackendDir(history_json)]]
    /\ UNCHANGED <<models, snapshots_store, uploading, saving, clock, db, history_json, op,
                   effects, resp>>

\* lines 137-142: the loop goes on to the next file whose name is not in
\* seen, adds the name and yields the event.  read_history_json gives the
\* name as the key whether the file can be read or not.
StreamFile ==
    /\ op = "events_stream"
    /\ req.pc = "files"
    /\ LET k == FirstUnseen(req.files, req.seen_files)
       IN  /\ k > 0
           /\ req' = [req EXCEPT !.seen_files = @ \cup {req.files[k]},
                                 !.files = SubSeq(@, k + 1, Len(@))]
           /\ effects' = Append(effects, <<"file event", req.files[k]>>)
    /\ UNCHANGED <<models, snapshots_store, uploading, saving, clock, db, history_json, op, resp>>

\* lines 137-143: no file is left whose name is not in seen; the round ends
\* in time.sleep(1)
StreamSleep ==
    /\ op = "events_stream"
    /\ req.pc = "files"
    /\ FirstUnseen(req.files, req.seen_files) = 0
    /\ req' = [req EXCEPT !.pc = "poll", !.files = <<>>]
    /\ UNCHANGED <<models, snapshots_store, uploading, saving, clock, db, history_json, op,
                   effects, resp>>

\* lines 127-143: the steps of the generator
StreamStep == StreamPoll \/ StreamRow \/ StreamListFiles \/ StreamFile \/ StreamSleep

\* the answer to a request that was turned away has gone out
StreamRefused ==
    /\ op = "admin"
    /\ Deliver

NextStream ==
    EventsStream \/ StreamRefused \/ StreamInsert \/ StreamSave
    \/ StreamPoll \/ StreamRow \/ StreamListFiles \/ StreamFile \/ StreamSleep

\* the client stays connected and takes every event, and the generator goes
\* on for as long as the stream is open
SpecStream == InitCommon /\ [][NextStream]_vars /\ WF_vars(StreamStep)

InsertedWhileOpen(i) ==
    op = "events_stream" /\ i > req.opened_at /\ i <= Len(db)

\* every row inserted since the stream was opened has been emitted on it
AllStreamed == \A i \in 1..MaxStreamRows : InsertedWhileOpen(i) => i \in req.seen

\* C29: on an open stream every row inserted while it is open is emitted at
\* some later time, whatever the number of inserts between two polls, and no
\* row is emitted that the stream emitted before.  Rows are never deleted
\* and an emitted row stays in seen, so each of the rows inserted so far is
\* emitted at some time exactly if the stream reaches, again and again, a
\* state in which all of them have been emitted.
C29_EveryRowStreamedOnce ==
    /\ [][(op = "events_stream" /\ op' = "events_stream"
            /\ Len(effects') > Len(effects)) =>
             LET event == effects'[Len(effects')]
             IN  /\ event[1] = "event" => event[2] \notin req.seen
                 /\ \A j \in 1..Len(effects) : effects[j] # event]_vars
    /\ []<>AllStreamed

C29_Witness ==
    /\ op = "events_stream"
    /\ Len(effects) = PollLimit
    /\ \E i \in 1..Len(db) :
           /\ i > req.opened_at
           /\ i \notin req.seen
           /\ i <= Len(db) - PollLimit


(***************************************************************************)
(* routes/analytics_data.py                                                *)
(***************************************************************************)
\* line 52, (quality or '').lower() on the values the two recording
\* handlers store in the quality column
QualityLower(quality) ==
    CASE quality = "Safe" -> "safe"
      [] quality = "Caution" -> "caution"
      [] quality = "Unsafe" -> "unsafe"
      [] quality = "Good" -> "good"
      [] quality = "Moderate" -> "moderate"
      [] quality = "Poor" -> "poor"
      [] quality = "Unknown" -> "unknown"
      [] quality = PyNone -> ""
      [] OTHER -> ""

\* lines 53-55, sub in q: the words the handler looks for that occur in q
WordsIn(q) ==
    CASE q = "good" -> {"good"}
      [] q = "moderate" -> {"moderate"}
      [] q = "caution" -> {"caution"}
      [] OTHER -> {}

\* a tally that knows the verdicts the detection handlers record
SafetyBucket_ByVerdict(quality) ==
    CASE quality \in {"Safe", "Good"} -> "safe"
      [] quality \in {"Caution", "Moderate"} -> "warning"
      [] quality \in {"Unsafe", "Poor", "Unknown"} -> "dangerous"
      [] OTHER -> "none"

\* lines 51-62: the counter a row adds one to ("none": no counter)
SafetyBucket(quality) ==
    LET q == QualityLower(quality)
    IN  IF "good" \in WordsIn(q) THEN "safe"
        ELSE IF WordsIn(q) \cap {"moderate", "caution", "warn"} # {} THEN "warning"
        ELSE IF q # "" THEN "dangerous"
        ELSE "none"

\* line 69, ts.split('T')[0].split(' ')[0]: the date of a timestamp, as the
\* number of its day
DatePart(ts) == ts \div (24 * 60 * 60 * 1000)

\* lines 36-75: the loop over the rows of detections; acc holds
\* species_counts, safety_counters and daily
RECURSIVE AnalyticsOf(_, _)
AnalyticsOf(rows, acc) ==
    IF rows = <<>> THEN acc
    ELSE LET row == rows[1]
             bucket == SafetyBucket(row.quality)
             counts == row.counts_json.json
             species == {counts[k][1] : k \in 1..Len(counts)}
             added == [sp \in species |->
                          SumSeq([k \in 1..Len(counts) |->
                                     IF counts[k][1] = sp THEN counts[k][2] ELSE 0])]
             date_part == DatePart(row.timestamp)
         IN  AnalyticsOf(Tail(rows),
                 [speciesCounts |->
                      [sp \in DOMAIN acc.speciesCounts \cup species |->
                          (IF sp \in DOMAIN acc.speciesCounts
                           THEN acc.speciesCounts[sp] ELSE 0)
                          + (IF sp \in species THEN added[sp] ELSE 0)],
                  safetyStats |->
                      [c \in {"safe", "warning", "dangerous"} |->
                          acc.safetyStats[c] + (IF c = bucket THEN 1 ELSE 0)],
                  daily |->
                      [d \in DOMAIN acc.daily \cup {date_part} |->
                          (IF d \in DOMAIN acc.daily THEN acc.daily[d] ELSE 0)
                          + (IF d = date_part THEN 1 ELSE 0)]])

\* lines 27-29: the counters before the loop
NoAnalytics ==
    [speciesCounts |-> <<>>,
     safetyStats |-> [c \in {"safe", "warning", "dangerous"} |-> 0],
     daily |-> <<>>]

\* lines 79-82: the dates of daily in ascending order, each with its count
DailyTrend(daily) ==
    LET n == Cardinality(DOMAIN daily)
        dates == CHOOSE d \in [1..n -> DOMAIN daily] :
                     \A j, k \in 1..n : j < k => d[j] < d[k]
    IN  [k \in 1..n |-> [date |-> dates[k], count |-> daily[dates[k]]]]

\* lines 84-88: the answer
AnalyticsAnswer(acc) ==
    [speciesCounts |-> acc.speciesCounts,
     safetyStats |-> acc.safetyStats,
     dailyTrend |-> DailyTrend(acc.daily)]

\* lines 11-88: GET /analytics-data
AnalyticsData ==
    /\ op = "none"
    /\ op' = "analytics_data"
    /\ req' = Idle
    /\ resp' = [kind |-> "return", http |-> 200,
                body |-> AnalyticsAnswer(AnalyticsOf(db, NoAnalytics))]
    /\ effects' = <<<<"select detections", Len(db)>>>>
    /\ UNCHANGED <<models, snapshots_store, uploading, saving, clock, db, history_json>>

\* datetime.utcnow() at the requests that save an analysis: two instants of
\* one day and one of the next; the wall clock may step back
AnalyticsTimes == {1, 2, 24 * 60 * 60 * 1000}

SaveAnalysis == SaveToHistoryRouteAt(SaveDocuments)

SaveAnalysisStore == SaveToHistoryRouteStoreAt(AnalyticsTimes)

NextAnalytics ==
    ModelWrapperLoad \/ Predict \/ AnalyzeImageRoute \/ SaveAnalysis
    \/ SaveAnalysisStore \/ AnalyticsData \/ Deliver

SpecAnalytics == InitCommon /\ [][NextAnalytics]_vars

StoredWith(verdict) == Cardinality({k \in 1..Len(db) : db[k].quality = verdict})

\* C30: GET /analytics-data counts every analysis POST /analyze-image stored
\* with the verdict Safe under safetyStats.safe and not under dangerous, every
\* Caution one under warning and every Unsafe one under dangerous.
C30_VerdictsTallied ==
    op = "analytics_data" =>
        LET stats == resp.body.safetyStats
        IN  /\ stats["safe"] >= StoredWith("Safe")
            /\ stats["dangerous"] <= Len(db) - StoredWith("Safe")
            /\ stats["warning"] >= StoredWith("Caution")
            /\ stats["dangerous"] >= StoredWith("Unsafe")

C30_Witness ==
    /\ op = "analytics_data"
    /\ StoredWith("Safe") = 1
    /\ resp.body.safetyStats["safe"] = 0
    /\ resp.body.safetyStats["dangerous"] = 1

====
